---- MODULE Spec2Model ----
(***************************************************************************)
(* Market pricing engine of EbayAutolister: sold-comp statistics with      *)
(* outlier rejection, the market data aggregator, the time-bounded cache   *)
(* and the tiered pricing calculator.                                      *)
(*                                                                         *)
(* Numbers.  The program computes on floats; the model computes on exact   *)
(* rationals [num, den] in lowest terms, so 165.60 is [num |-> 828,        *)
(* den |-> 5], and on the three floats that are no numbers, written as     *)
(* fractions over zero.  A float differs from the rational it stands for   *)
(* by its rounding error; where that error decides a comparison the model  *)
(* computes on the floats themselves (see FloatZScoreWithin).              *)
(* Time.  The clock counts whole hours; timestamps are hours since the     *)
(* start of the run.                                                       *)
(* Strings are TLA+ strings, taken apart with Len and SubSeq.              *)
(***************************************************************************)
EXTENDS Integers, Sequences, FiniteSets, TLC

VARIABLES now, cache, last, best_offer_enabled, calc, stats, fetch, op, price_filter, resolver, condition_mapper, callers, sweep

vars == <<now, cache, last, best_offer_enabled, calc, stats, fetch, op, price_filter, resolver, condition_mapper, callers, sweep>>

(***************************************************************************)
(* Bounds of the model.                                                    *)
(***************************************************************************)
\* the clock stops at MaxTime hours
MaxTime == 48
\* the clock advances in steps of TickHours hours
TickHours == 12
\* longest list of sold prices fed to the statistics
MaxPrices == 5
\* longest itemSummaries answer explored by the pricing calculator
MaxItems == 2
\* longest sold-comp result explored by the pricing calculator
MaxSold == 3

\* length of the sold-price lists that carry one outlier
RunLen == 9

\* the calls each caller makes of the operations that take more than one
\* statement on the store
MaxCalls == 1

(***************************************************************************)
(* Optional values: None is the empty tuple, Some(x) a one-element tuple.  *)
(***************************************************************************)
None == <<>>

Some(x) == <<x>>

(***************************************************************************)
(* Float arithmetic, exact on the numbers and as IEEE 754 defines it on    *)
(* inf, -inf and nan.                                                      *)
(***************************************************************************)
Abs(x) == IF x < 0 THEN -x ELSE x

RECURSIVE GCD(_, _)
GCD(a, b) == IF b = 0 THEN a ELSE GCD(b, a % b)

Rat(n, d) ==
    LET g == GCD(Abs(n), Abs(d))
        s == IF d < 0 THEN -1 ELSE 1
    IN  [num |-> (s * n) \div g, den |-> (s * d) \div g]

Zero == Rat(0, 1)

\* the floats that are no numbers, as fractions over zero: none of them is
\* zero, as none of them is false in Python
Infinity == [num |-> 1, den |-> 0]

MinusInfinity == [num |-> -1, den |-> 0]

NaN == [num |-> 2, den |-> 0]

\* a * b: nan when a factor is nan and for inf * 0
RMul(a, b) ==
    IF a = NaN \/ b = NaN THEN NaN
    ELSE IF a.den = 0 \/ b.den = 0
    THEN (IF a.num = 0 \/ b.num = 0 THEN NaN
          ELSE IF (a.num > 0) = (b.num > 0) THEN Infinity ELSE MinusInfinity)
    ELSE LET g1 == GCD(Abs(a.num), b.den)
             g2 == GCD(Abs(b.num), a.den)
         IN  Rat((a.num \div g1) * (b.num \div g2), (a.den \div g2) * (b.den \div g1))

\* a + b: nan when a term is nan and for inf + -inf
RAdd(a, b) ==
    IF a = NaN \/ b = NaN THEN NaN
    ELSE IF a.den = 0 THEN (IF b.den = 0 /\ b # a THEN NaN ELSE a)
    ELSE IF b.den = 0 THEN b
    ELSE LET g == GCD(a.den, b.den)
         IN  Rat(a.num * (b.den \div g) + b.num * (a.den \div g), (a.den \div g) * b.den)

RSub(a, b) == RAdd(a, IF b = NaN THEN NaN ELSE [num |-> -b.num, den |-> b.den])

\* a/b <= c/d for a, c >= 0 and b, d > 0, by continued fractions: no product
\* is formed, so the comparison stays within 32-bit integers
RECURSIVE FracLeq(_, _, _, _)
FracLeq(a, b, c, d) ==
    LET qa == a \div b
        qc == c \div d
        ra == a % b
        rc == c % d
    IN  IF qa # qc THEN qa < qc
        ELSE IF ra = 0 THEN TRUE
        ELSE IF rc = 0 THEN FALSE
        ELSE FracLeq(d, rc, b, ra)

\* a <= b: false when a or b is nan
RLe(a, b) ==
    IF a = NaN \/ b = NaN THEN FALSE
    ELSE IF a.den = 0 \/ b.den = 0 THEN a = MinusInfinity \/ b = Infinity
    ELSE IF a.num < 0 /\ b.num >= 0 THEN TRUE
    ELSE IF a.num >= 0 /\ b.num < 0 THEN FALSE
    ELSE IF a.num >= 0 THEN FracLeq(a.num, a.den, b.num, b.den)
    ELSE FracLeq(-b.num, b.den, -a.num, a.den)

\* a < b: false when a or b is nan
RLt(a, b) == a # NaN /\ b # NaN /\ ~RLe(b, a)

(***************************************************************************)
(* Python string methods used by the engine.  A string of the model holds  *)
(* the characters that can be written in a string of this language: those  *)
(* below U+0100 but the grave accent, and those from U+0100 to U+FFFF      *)
(* whose code ends in a byte from 80 to FF.  The tables below list every   *)
(* such character that str.lower or str.upper changes into characters of   *)
(* the same kind.  NoLower and NoUpper list the ones they change into      *)
(* characters of another kind: lower and upper have no value on a text     *)
(* that holds one of these.                                                *)
(***************************************************************************)
CharAt(s, i) == SubSeq(s, i, i)

Chars(s) == {CharAt(s, i) : i \in 1..Len(s)}

\* the characters str.lower changes, and at the same places what it makes
\* of them; the capital sigma is not among them, see FinalSigma
LowerFrom ==
    "ABCDEFGHIJKLMNOPQRSTUVWXYZÀÁÂÃÄÅÆÇÈÉÊËÌÍÎÏÐÑÒÓÔÕ" \o
    "ÖØÙÚÛÜÝÞƂƄƇƋƎƑƘƠƢƤƦƧƩƬƮƯƱƲƳƵƷƸƼǄǅǇǈǊǋǍǏǑǓǕǗǙǛǞǠǢ" \o
    "ǤǦǨǪǬǮǱǲǴǶǷǸǺǼǾΆΈΉΊΌΎΏΑΒΓΔΕΖΗΘΙΚΛΜΝΞΟΠΡΤΥΦΧΨΩΪΫϏ" \o
    "ϘϚϜϞϠϢϤϦϨϪϬϮϴϷϹϺҀҊҌҎҐҒҔҖҘҚҜҞҠҢҤҦҨҪҬҮҰҲҴҶҸҺҼҾӀӁӃӅ" \o
    "ӇӉӋӍӐӒӔӖӘӚӜӞӠӢӤӦӨӪӬӮӰӲӴӶӸӺӼӾᎰᎱᎲᎳᎴᎵᎶᎷᎸᎹᎺᎻᎼᎽᎾᎿᏀᏁᏂᏃ" \o
    "ᏄᏅᏆᏇᏈᏉᏊᏋᏌᏍᏎᏏᏐᏑᏒᏓᏔᏕᏖᏗᏘᏙᏚᏛᏜᏝᏞᏟᏠᏡᏢᏣᏤᏥᏦᏧᏨᏩᏪᏫᏬᏭᏮᏯᏰᏱᏲᏳ" \o
    "ᏴᏵᲐᲑᲒᲓᲔᲕᲖᲗᲘᲙᲚᲛᲜᲝᲞᲟᲠᲡᲢᲣᲤᲥᲦᲧᲨᲩᲪᲫᲬᲭᲮᲯᲰᲱᲲᲳᲴᲵᲶᲷᲸᲹᲺᲽᲾᲿ" \o
    "ẀẂẄẆẈẊẌẎẐẒẔẞẠẢẤẦẨẪẬẮẰẲẴẶẸẺẼẾỀỂỄỆỈỊỌỎỐỒỔỖỘỚỜỞỠỢỤỦ" \o
    "ỨỪỬỮỰỲỴỶỸỺỼỾᾈᾉᾊᾋᾌᾍᾎᾏᾘᾙᾚᾛᾜᾝᾞᾟᾨᾩᾪᾫᾬᾭᾮᾯᾸᾹᾼῌῘῙῨῩῬῼↃⒶ" \o
    "ⒷⒸⒹⒺⒻⒼⒽⒾⒿⓀⓁⓂⓃⓄⓅⓆⓇⓈⓉⓊⓋⓌⓍⓎⓏⲀⲂⲄⲆⲈⲊⲌⲎⲐⲒⲔⲖⲘⲚⲜⲞⲠⲢⲤⲦⲨⲪⲬ" \o
    "ⲮⲰⲲⲴⲶⲸⲺⲼⲾⳀⳂⳄⳆⳈⳊⳌⳎⳐⳒⳔⳖⳘⳚⳜⳞⳠⳢⳫⳭⳲꚀꚂꚄꚆꚈꚊꚌꚎꚐꚒꚔꚖꚘꚚꞀꞂꞄꞆ" \o
    "ꞋꞐꞒꞖꞘꞚꞜꞞꞠꞢꞤꞦꞨꞰꞱꞲꞴꞶꞸꞺꞼꞾꟀꟂꟄꟅꟆꟇꟉꟐꟖꟘꟵ"

LowerTo ==
    "abcdefghijklmnopqrstuvwxyzàáâãäåæçèéêëìíîïðñòóôõ" \o
    "öøùúûüýþƃƅƈƌǝƒƙơƣƥʀƨʃƭʈưʊʋƴƶʒƹƽǆǆǉǉǌǌǎǐǒǔǖǘǚǜǟǡǣ" \o
    "ǥǧǩǫǭǯǳǳǵƕƿǹǻǽǿάέήίόύώαβγδεζηθικλμνξοπρτυφχψωϊϋϗ" \o
    "ϙϛϝϟϡϣϥϧϩϫϭϯθϸϲϻҁҋҍҏґғҕҗҙқҝҟҡңҥҧҩҫҭүұҳҵҷҹһҽҿӏӂӄӆ" \o
    "ӈӊӌӎӑӓӕӗәӛӝӟӡӣӥӧөӫӭӯӱӳӵӷӹӻӽӿꮀꮁꮂꮃꮄꮅꮆꮇꮈꮉꮊꮋꮌꮍꮎꮏꮐꮑꮒꮓ" \o
    "ꮔꮕꮖꮗꮘꮙꮚꮛꮜꮝꮞꮟꮠꮡꮢꮣꮤꮥꮦꮧꮨꮩꮪꮫꮬꮭꮮꮯꮰꮱꮲꮳꮴꮵꮶꮷꮸꮹꮺꮻꮼꮽꮾꮿᏸᏹᏺᏻ" \o
    "ᏼᏽაბგდევზთიკლმნოპჟრსტუფქღყშჩცძწჭხჯჰჱჲჳჴჵჶჷჸჹჺჽჾჿ" \o
    "ẁẃẅẇẉẋẍẏẑẓẕßạảấầẩẫậắằẳẵặẹẻẽếềểễệỉịọỏốồổỗộớờởỡợụủ" \o
    "ứừửữựỳỵỷỹỻỽỿᾀᾁᾂᾃᾄᾅᾆᾇᾐᾑᾒᾓᾔᾕᾖᾗᾠᾡᾢᾣᾤᾥᾦᾧᾰᾱᾳῃῐῑῠῡῥῳↄⓐ" \o
    "ⓑⓒⓓⓔⓕⓖⓗⓘⓙⓚⓛⓜⓝⓞⓟⓠⓡⓢⓣⓤⓥⓦⓧⓨⓩⲁⲃⲅⲇⲉⲋⲍⲏⲑⲓⲕⲗⲙⲛⲝⲟⲡⲣⲥⲧⲩⲫⲭ" \o
    "ⲯⲱⲳⲵⲷⲹⲻⲽⲿⳁⳃⳅⳇⳉⳋⳍⳏⳑⳓⳕⳗⳙⳛⳝⳟⳡⳣⳬⳮⳳꚁꚃꚅꚇꚉꚋꚍꚏꚑꚓꚕꚗꚙꚛꞁꞃꞅꞇ" \o
    "ꞌꞑꞓꞗꞙꞛꞝꞟꞡꞣꞥꞧꞩʞʇʝꞵꞷꞹꞻꞽꞿꟁꟃꞔʂᶎꟈꟊꟑꟗꟙꟶ"

\* the characters str.upper changes into one character, and at the same
\* places what it makes of them
UpperFrom ==
    "abcdefghijklmnopqrstuvwxyzµàáâãäåæçèéêëìíîïðñòóô" \o
    "õöøùúûüýþƃƅƈƌƒƕƙơƣƥƨƭưƴƶƹƽƿǅǆǈǉǋǌǎǐǒǔǖǘǚǜǝǟǡǣǥǧǩ" \o
    "ǫǭǯǲǳǵǹǻǽǿʀʂʃʇʈʊʋʒʝʞάέήίαβγδεζηθικλμνξοπρςστυφχψ" \o
    "ωϊϋόύώϐϑϕϖϗϙϛϝϟϡϣϥϧϩϫϭϯϰϱϲϵϸϻҁҋҍҏґғҕҗҙқҝҟҡңҥҧҩҫҭ" \o
    "үұҳҵҷҹһҽҿӂӄӆӈӊӌӎӏӑӓӕӗәӛӝӟӡӣӥӧөӫӭӯӱӳӵӷӹӻӽӿაბგდევზ" \o
    "თიკლმნოპჟრსტუფქღყშჩცძწჭხჯჰჱჲჳჴჵჶჷჸჹჺჽჾჿᏸᏹᏺᏻᏼᏽᶎẁẃ" \o
    "ẅẇẉẋẍẏẑẓẕạảấầẩẫậắằẳẵặẹẻẽếềểễệỉịọỏốồổỗộớờởỡợụủứừử" \o
    "ữựỳỵỷỹỻỽỿᾰᾱιῐῑῠῡῥↄⓐⓑⓒⓓⓔⓕⓖⓗⓘⓙⓚⓛⓜⓝⓞⓟⓠⓡⓢⓣⓤⓥⓦⓧⓨⓩⲁⲃⲅⲇ" \o
    "ⲉⲋⲍⲏⲑⲓⲕⲗⲙⲛⲝⲟⲡⲣⲥⲧⲩⲫⲭⲯⲱⲳⲵⲷⲹⲻⲽⲿⳁⳃⳅⳇⳉⳋⳍⳏⳑⳓⳕⳗⳙⳛⳝⳟⳡⳣⳬⳮ" \o
    "ⳳꚁꚃꚅꚇꚉꚋꚍꚏꚑꚓꚕꚗꚙꚛꞁꞃꞅꞇꞌꞑꞓꞔꞗꞙꞛꞝꞟꞡꞣꞥꞧꞩꞵꞷꞹꞻꞽꞿꟁꟃꟈꟊꟑꟗꟙꟶꮀ" \o
    "ꮁꮂꮃꮄꮅꮆꮇꮈꮉꮊꮋꮌꮍꮎꮏꮐꮑꮒꮓꮔꮕꮖꮗꮘꮙꮚꮛꮜꮝꮞꮟꮠꮡꮢꮣꮤꮥꮦꮧꮨꮩꮪꮫꮬꮭꮮꮯꮰ" \o
    "ꮱꮲꮳꮴꮵꮶꮷꮸꮹꮺꮻꮼꮽꮾꮿ"

UpperTo ==
    "ABCDEFGHIJKLMNOPQRSTUVWXYZΜÀÁÂÃÄÅÆÇÈÉÊËÌÍÎÏÐÑÒÓÔ" \o
    "ÕÖØÙÚÛÜÝÞƂƄƇƋƑǶƘƠƢƤƧƬƯƳƵƸƼǷǄǄǇǇǊǊǍǏǑǓǕǗǙǛƎǞǠǢǤǦǨ" \o
    "ǪǬǮǱǱǴǸǺǼǾƦꟅƩꞱƮƱƲƷꞲꞰΆΈΉΊΑΒΓΔΕΖΗΘΙΚΛΜΝΞΟΠΡΣΣΤΥΦΧΨ" \o
    "ΩΪΫΌΎΏΒΘΦΠϏϘϚϜϞϠϢϤϦϨϪϬϮΚΡϹΕϷϺҀҊҌҎҐҒҔҖҘҚҜҞҠҢҤҦҨҪҬ" \o
    "ҮҰҲҴҶҸҺҼҾӁӃӅӇӉӋӍӀӐӒӔӖӘӚӜӞӠӢӤӦӨӪӬӮӰӲӴӶӸӺӼӾᲐᲑᲒᲓᲔᲕᲖ" \o
    "ᲗᲘᲙᲚᲛᲜᲝᲞᲟᲠᲡᲢᲣᲤᲥᲦᲧᲨᲩᲪᲫᲬᲭᲮᲯᲰᲱᲲᲳᲴᲵᲶᲷᲸᲹᲺᲽᲾᲿᏰᏱᏲᏳᏴᏵꟆẀẂ" \o
    "ẄẆẈẊẌẎẐẒẔẠẢẤẦẨẪẬẮẰẲẴẶẸẺẼẾỀỂỄỆỈỊỌỎỐỒỔỖỘỚỜỞỠỢỤỦỨỪỬ" \o
    "ỮỰỲỴỶỸỺỼỾᾸᾹΙῘῙῨῩῬↃⒶⒷⒸⒹⒺⒻⒼⒽⒾⒿⓀⓁⓂⓃⓄⓅⓆⓇⓈⓉⓊⓋⓌⓍⓎⓏⲀⲂⲄⲆ" \o
    "ⲈⲊⲌⲎⲐⲒⲔⲖⲘⲚⲜⲞⲠⲢⲤⲦⲨⲪⲬⲮⲰⲲⲴⲶⲸⲺⲼⲾⳀⳂⳄⳆⳈⳊⳌⳎⳐⳒⳔⳖⳘⳚⳜⳞⳠⳢⳫⳭ" \o
    "ⳲꚀꚂꚄꚆꚈꚊꚌꚎꚐꚒꚔꚖꚘꚚꞀꞂꞄꞆꞋꞐꞒꟄꞖꞘꞚꞜꞞꞠꞢꞤꞦꞨꞴꞶꞸꞺꞼꞾꟀꟂꟇꟉꟐꟖꟘꟵᎰ" \o
    "ᎱᎲᎳᎴᎵᎶᎷᎸᎹᎺᎻᎼᎽᎾᎿᏀᏁᏂᏃᏄᏅᏆᏇᏈᏉᏊᏋᏌᏍᏎᏏᏐᏑᏒᏓᏔᏕᏖᏗᏘᏙᏚᏛᏜᏝᏞᏟᏠ" \o
    "ᏡᏢᏣᏤᏥᏦᏧᏨᏩᏪᏫᏬᏭᏮᏯ"

\* the characters str.upper changes into more than one character
UpperFull ==
    ("ß" :> "SS") @@ ("ẚ" :> "Aʾ") @@ ("ᾲ" :> "ᾺΙ") @@ ("ᾳ" :> "ΑΙ") @@ ("ᾴ" :> "ΆΙ") @@
    ("ᾼ" :> "ΑΙ") @@ ("ῂ" :> "ῊΙ") @@ ("ῃ" :> "ΗΙ") @@ ("ῄ" :> "ΉΙ") @@ ("ῌ" :> "ΗΙ") @@
    ("ῲ" :> "ῺΙ") @@ ("ῳ" :> "ΩΙ") @@ ("ῴ" :> "ΏΙ") @@ ("ῼ" :> "ΩΙ")

\* the cased characters that are not case-ignorable
Cased ==
    "ABCDEFGHIJKLMNOPQRSTUVWXYZabcdefghijklmnopqrstuv" \o
    "wxyzªµºÀÁÂÃÄÅÆÇÈÉÊËÌÍÎÏÐÑÒÓÔÕÖØÙÚÛÜÝÞßàáâãäåæçèé" \o
    "êëìíîïðñòóôõöøùúûüýþÿƀƁƂƃƄƅƆƇƈƉƊƋƌƍƎƏƐƑƒƓƔƕƖƗƘƙƚ" \o
    "ƛƜƝƞƟƠơƢƣƤƥƦƧƨƩƪƫƬƭƮƯưƱƲƳƴƵƶƷƸƹƺƼƽƾƿǄǅǆǇǈǉǊǋǌǍǎǏ" \o
    "ǐǑǒǓǔǕǖǗǘǙǚǛǜǝǞǟǠǡǢǣǤǥǦǧǨǩǪǫǬǭǮǯǰǱǲǳǴǵǶǷǸǹǺǻǼǽǾǿ" \o
    "ʀʁʂʃʄʅʆʇʈʉʊʋʌʍʎʏʐʑʒʓʕʖʗʘʙʚʛʜʝʞʟʠʡʢʣʤʥʦʧʨʩʪʫʬʭʮʯΆ" \o
    "ΈΉΊΌΎΏΐΑΒΓΔΕΖΗΘΙΚΛΜΝΞΟΠΡΣΤΥΦΧΨΩΪΫάέήίΰαβγδεζηθικ" \o
    "λμνξοπρςστυφχψωϊϋόύώϏϐϑϒϓϔϕϖϗϘϙϚϛϜϝϞϟϠϡϢϣϤϥϦϧϨϩϪ" \o
    "ϫϬϭϮϯϰϱϲϳϴϵϷϸϹϺϻϼϽϾϿҀҁҊҋҌҍҎҏҐґҒғҔҕҖҗҘҙҚқҜҝҞҟҠҡҢң" \o
    "ҤҥҦҧҨҩҪҫҬҭҮүҰұҲҳҴҵҶҷҸҹҺһҼҽҾҿӀӁӂӃӄӅӆӇӈӉӊӋӌӍӎӏӐӑӒӓ" \o
    "ӔӕӖӗӘәӚӛӜӝӞӟӠӡӢӣӤӥӦӧӨөӪӫӬӭӮӯӰӱӲӳӴӵӶӷӸӹӺӻӼӽӾӿրցւփ" \o
    "քօֆևֈႠႡႢႣႤႥႦႧႨႩႪႫႬႭႮႯႰႱႲႳႴႵႶႷႸႹႺႻႼႽႾႿჀჁჂჃჄჅჇჍაბგ" \o
    "დევზთიკლმნოპჟრსტუფქღყშჩცძწჭხჯჰჱჲჳჴჵჶჷჸჹჺჽჾჿᎠᎡᎢᎣᎤ" \o
    "ᎥᎦᎧᎨᎩᎪᎫᎬᎭᎮᎯᎰᎱᎲᎳᎴᎵᎶᎷᎸᎹᎺᎻᎼᎽᎾᎿᏀᏁᏂᏃᏄᏅᏆᏇᏈᏉᏊᏋᏌᏍᏎᏏᏐᏑᏒᏓᏔ" \o
    "ᏕᏖᏗᏘᏙᏚᏛᏜᏝᏞᏟᏠᏡᏢᏣᏤᏥᏦᏧᏨᏩᏪᏫᏬᏭᏮᏯᏰᏱᏲᏳᏴᏵᏸᏹᏺᏻᏼᏽᲀᲁᲂᲃᲄᲅᲆᲇᲈ" \o
    "ᲐᲑᲒᲓᲔᲕᲖᲗᲘᲙᲚᲛᲜᲝᲞᲟᲠᲡᲢᲣᲤᲥᲦᲧᲨᲩᲪᲫᲬᲭᲮᲯᲰᲱᲲᲳᲴᲵᲶᲷᲸᲹᲺᲽᲾᲿᶀᶁ" \o
    "ᶂᶃᶄᶅᶆᶇᶈᶉᶊᶋᶌᶍᶎᶏᶐᶑᶒᶓᶔᶕᶖᶗᶘᶙᶚẀẁẂẃẄẅẆẇẈẉẊẋẌẍẎẏẐẑẒẓẔẕẖ" \o
    "ẗẘẙẚẛẜẝẞẟẠạẢảẤấẦầẨẩẪẫẬậẮắẰằẲẳẴẵẶặẸẹẺẻẼẽẾếỀềỂểỄễỆ" \o
    "ệỈỉỊịỌọỎỏỐốỒồỔổỖỗỘộỚớỜờỞởỠỡỢợỤụỦủỨứỪừỬửỮữỰựỲỳỴỵỶ" \o
    "ỷỸỹỺỻỼỽỾỿᾀᾁᾂᾃᾄᾅᾆᾇᾈᾉᾊᾋᾌᾍᾎᾏᾐᾑᾒᾓᾔᾕᾖᾗᾘᾙᾚᾛᾜᾝᾞᾟᾠᾡᾢᾣᾤᾥᾦ" \o
    "ᾧᾨᾩᾪᾫᾬᾭᾮᾯᾰᾱᾲᾳᾴᾶᾷᾸᾹᾺΆᾼιῂῃῄῆῇῈΈῊΉῌῐῑῒΐῖῗῘῙῚΊῠῡῢΰῤῥ" \o
    "ῦῧῨῩῪΎῬῲῳῴῶῷῸΌῺΏῼↃↄⒶⒷⒸⒹⒺⒻⒼⒽⒾⒿⓀⓁⓂⓃⓄⓅⓆⓇⓈⓉⓊⓋⓌⓍⓎⓏⓐⓑⓒ" \o
    "ⓓⓔⓕⓖⓗⓘⓙⓚⓛⓜⓝⓞⓟⓠⓡⓢⓣⓤⓥⓦⓧⓨⓩⲀⲁⲂⲃⲄⲅⲆⲇⲈⲉⲊⲋⲌⲍⲎⲏⲐⲑⲒⲓⲔⲕⲖⲗⲘ" \o
    "ⲙⲚⲛⲜⲝⲞⲟⲠⲡⲢⲣⲤⲥⲦⲧⲨⲩⲪⲫⲬⲭⲮⲯⲰⲱⲲⲳⲴⲵⲶⲷⲸⲹⲺⲻⲼⲽⲾⲿⳀⳁⳂⳃⳄⳅⳆⳇⳈ" \o
    "ⳉⳊⳋⳌⳍⳎⳏⳐⳑⳒⳓⳔⳕⳖⳗⳘⳙⳚⳛⳜⳝⳞⳟⳠⳡⳢⳣⳤⳫⳬⳭⳮⳲⳳꚀꚁꚂꚃꚄꚅꚆꚇꚈꚉꚊꚋꚌꚍ" \o
    "ꚎꚏꚐꚑꚒꚓꚔꚕꚖꚗꚘꚙꚚꚛꞀꞁꞂꞃꞄꞅꞆꞇꞋꞌꞍꞎꞐꞑꞒꞓꞔꞕꞖꞗꞘꞙꞚꞛꞜꞝꞞꞟꞠꞡꞢꞣꞤꞥ" \o
    "ꞦꞧꞨꞩꞪꞫꞬꞭꞮꞯꞰꞱꞲꞳꞴꞵꞶꞷꞸꞹꞺꞻꞼꞽꞾꞿꟀꟁꟂꟃꟄꟅꟆꟇꟈꟉꟊꟐꟑꟓꟕꟖꟗꟘꟙꟵꟶꟺ" \o
    "ꮀꮁꮂꮃꮄꮅꮆꮇꮈꮉꮊꮋꮌꮍꮎꮏꮐꮑꮒꮓꮔꮕꮖꮗꮘꮙꮚꮛꮜꮝꮞꮟꮠꮡꮢꮣꮤꮥꮦꮧꮨꮩꮪꮫꮬꮭꮮꮯ" \o
    "ꮰꮱꮲꮳꮴꮵꮶꮷꮸꮹꮺꮻꮼꮽꮾꮿ"

\* the case-ignorable characters
CaseIgnorable ==
    "'.:^¨­¯´·¸ʰʱʲʳʴʵʶʷʸʹʺʻʼʽʾʿˀˁ˂˃˄˅ˆˇˈˉˊˋˌˍˎˏːˑ˒˓˔˕" \o
    "˖˗˘˙˚˛˜˝˞˟ˠˡˢˣˤ˥˦˧˨˩˪˫ˬ˭ˮ˯˰˱˲˳˴˵˶˷˸˹˺˻˼˽˾˿΄΅·҃҄҅" \o
    "҆҇҈҉ְֱֲֳִֵֶַָֹֺֻּ֑֖֛֢֣֤֥֦֧֪֚֭֮֒֓֔֕֗֘֙֜֝֞֟֠֡֨֩֫֬֯" \o
    "ׇֽֿׁׂׅׄ״ۖۗۘۙۚۛۜ۝ۣ۟۠ۡۢۤۥۦ۪ۭۧۨ۫۬ަާިީުޫެޭޮޯް߫߬߭߮߯߰߱" \o
    "߲߳ߴߵߺ߽࢈࢐࢑࢙࢚࢛࢘࢜࢝࢞࢟ࣉ࣏࣐࣑࣒࣓࣊࣋࣌࣍࣎ࣔࣕࣖࣗࣘࣙࣚࣛࣜࣝࣞࣟ࣠࣡࣢ࣣࣦࣤࣥࣧ" \o
    "ࣰࣱࣲࣩ࣭࣮࣯ࣶࣹࣺࣨ࣪࣫࣬ࣳࣴࣵࣷࣸࣻࣼࣽࣾࣿঁ়ুূৃৄ্ৢৣ৾ઁં઼ુૂૃૄૅેૈ્ૢૣૺ" \o
    "ૻૼ૽૾૿ஂீ்ಁ಼ಿೆೌ್ೢೣඁ්ිීුූັິີຶື຺ຸູົຼໆ່້໊໋໌ໍ྄ཱྀྀྂྃ྆྇ྍྎ" \o
    "ྏྐྑྒྒྷྔྕྖྗྙྚྛྜྜྷྞྟྠྡྡྷྣྤྥྦྦྷྨྩྪྫྫྷྭྮྯྰྱྲླྴྵྶྷྸྐྵྺྻྼ࿆ႂႅ" \o
    "ႆႍႝჼ឴឵ិីឹឺុូួំ៉៊់៌៍៎៏័៑្៓ៗ៝ᢅᢆᢩᪧ᪵᪶᪷᪸᪹᪺᪽᪰᪱᪲᪳᪴᪻᪼᪾ᪿᫀ" \o
    "᫃᫄᫊᫁᫂᫅᫆᫇᫈᫉᫋ᫌᫍᫎᮀᮁᮢᮣᮤᮥᮨᮩ᮫ᮬᮭ᯦ᯨᯩᯭᯯᯰᯱ᳔᳕᳖᳗᳘᳙᳜᳝᳞᳟᳐᳑᳒᳚᳛᳠" \o
    "᳢᳣᳤᳥᳦᳧᳨᳭᳴᳸᳹ᶛᶜᶝᶞᶟᶠᶡᶢᶣᶤᶥᶦᶧᶨᶩᶪᶫᶬᶭᶮᶯᶰᶱᶲᶳᶴᶵᶶᶷᶸᶹᶺᶻᶼᶽᶾᶿ" \o
    "᷐᷎᷂᷊᷏᷀᷁᷃᷄᷅᷆᷇᷈᷉᷋᷌᷑᷒ᷓᷔᷕᷖᷗᷘᷙᷚᷛᷜᷝᷞᷟᷠᷡᷢᷣᷤᷥᷦᷧᷨᷩᷪᷫᷬᷭᷮᷯ᷍" \o
    "᷺᷹᷽᷿᷷᷸ᷰᷱᷲᷳᷴ᷵᷻᷾᷶᷼᾽᾿῀῁῍῎῏῝῞῟῭΅`´῾ₐₑₒₓₔₕₖₗₘₙₚₛₜ⃒⃓⃐⃑" \o
    "⃘⃙⃚⃔⃕⃖⃗⃛⃜⃝⃞⃟⃠⃡⃢⃣⃤⃥⃦⃪⃫⃨⃬⃭⃮⃯⃧⃩⃰⳯⳰⳱ⷠⷡⷢⷣⷤⷥⷦⷧⷨⷩⷪⷫⷬⷭⷮⷯ" \o
    "゙゚ⷰⷱⷲⷳⷴⷵⷶⷷⷸⷹⷺⷻⷼⷽⷾⷿ゛゜ゝゞーヽヾꓸꓹꓺꓻꓼꓽꚜꚝꚞꚟ꛰꛱ꞈ꞉꞊ꟲꟳꟴꟸꟹ꣄ꣅ꣠" \o
    "꣡꣢꣣꣤꣥꣦꣧꣨꣩꣪꣫꣬꣭꣮꣯꣰꣱ꣿꦀꦁꦂ꦳ꦶꦷꦸꦹꦼꦽꧏꧥꧦꪴꪰꪲꪳꪷꪸꪾ꪿꫁ꫝꫬꫭꫳꫴ꫶ꯥꯨ" \o
    "꯭﮲﮳﮴﮵﮶﮷﮸﮹﮺﮻﮼﮽﮾﮿﯀﯁﯂﻿ﾞﾟ￣￹￺￻"

\* the characters str.lower changes into a character that no string here
\* can hold
NoLower ==
    Chars(
    "ƁƆƉƊƏƐƓƔƖƗƜƝƟϽϾϿႠႡႢႣႤႥႦႧႨႩႪႫႬႭႮႯႰႱႲႳႴႵႶႷႸႹႺႻႼႽႾႿ" \o
    "ჀჁჂჃჄჅჇჍᎠᎡᎢᎣᎤᎥᎦᎧᎨᎩᎪᎫᎬᎭᎮᎯᾺΆῈΈῊΉῚΊῪΎῸΌῺΏꞍꞪꞫꞬꞭꞮꞳ")

\* the characters str.upper changes into characters one of which no string
\* here can hold
NoUpper ==
    Chars(
    "ÿƀƚƞǰʉʌΐΰϳրցւփքօֆևᲀᲁᲂᲃᲄᲅᲆᲇᲈẖẗẘẙẛᾀᾁᾂᾃᾄᾅᾆᾇᾈᾉᾊᾋᾌᾍᾎᾏ" \o
    "ᾐᾑᾒᾓᾔᾕᾖᾗᾘᾙᾚᾛᾜᾝᾞᾟᾠᾡᾢᾣᾤᾥᾦᾧᾨᾩᾪᾫᾬᾭᾮᾯᾶᾷῆῇῒΐῖῗῢΰῤῦῧῶῷ")

\* str.lower and str.upper on one character; neither has a value on the
\* characters of NoLower and NoUpper
ToLower ==
    [c \in Chars(LowerFrom) |->
        CharAt(LowerTo, CHOOSE i \in 1..Len(LowerFrom) : CharAt(LowerFrom, i) = c)]

ToUpper ==
    [c \in Chars(UpperFrom) |->
        CharAt(UpperTo, CHOOSE i \in 1..Len(UpperFrom) : CharAt(UpperFrom, i) = c)] @@ UpperFull

\* the capital sigma at place i of s ends a word: the nearest character
\* before it that is not case-ignorable is cased, and the nearest one after
\* it, if any, is not
FinalSigma(s, i) ==
    /\ \E j \in 1..(i - 1) :
           /\ CharAt(s, j) \in Chars(Cased)
           /\ \A k \in (j + 1)..(i - 1) : CharAt(s, k) \in Chars(CaseIgnorable)
    /\ ~\E j \in (i + 1)..Len(s) :
           /\ CharAt(s, j) \in Chars(Cased)
           /\ \A k \in (i + 1)..(j - 1) : CharAt(s, k) \in Chars(CaseIgnorable)

RECURSIVE LowerFromPlace(_, _)
LowerFromPlace(s, i) ==
    IF i > Len(s) THEN ""
    ELSE LET c == CharAt(s, i)
         IN  (IF c = "Σ" THEN (IF FinalSigma(s, i) THEN "ς" ELSE "σ")
              ELSE IF c \in DOMAIN ToLower \/ c \in NoLower THEN ToLower[c]
              ELSE c) \o LowerFromPlace(s, i + 1)

lower(s) == LowerFromPlace(s, 1)

RECURSIVE upper(_)
upper(s) ==
    IF Len(s) = 0 THEN ""
    ELSE LET c == CharAt(s, 1)
         IN  (IF c \in DOMAIN ToUpper \/ c \in NoUpper THEN ToUpper[c] ELSE c)
             \o upper(SubSeq(s, 2, Len(s)))

\* str.isspace on one character, the whitespace of str.split and str.strip:
\* space, tab, line feed, carriage return, form feed and, written as the
\* characters themselves, U+000B, U+001C to U+001F, U+0085, U+00A0 and
\* U+1680.  The whitespace from U+2000 on cannot be written in a string of
\* this language; text that holds it is outside the model.
Whitespace ==
    {" ", "\t", "\n", "\r", "\f",
     "", "", "", "", "", "", " ", " "}

IsSpace(c) == c \in Whitespace

RECURSIVE lstrip(_)
lstrip(s) ==
    IF Len(s) > 0 /\ IsSpace(CharAt(s, 1)) THEN lstrip(SubSeq(s, 2, Len(s))) ELSE s

RECURSIVE rstrip(_)
rstrip(s) ==
    IF Len(s) > 0 /\ IsSpace(CharAt(s, Len(s))) THEN rstrip(SubSeq(s, 1, Len(s) - 1)) ELSE s

strip(s) == lstrip(rstrip(s))

\* ' '.join(s.split()): the words of s, separated by single spaces
RECURSIVE JoinWords(_)
JoinWords(s) ==
    LET t == strip(s)
        rest == SubSeq(t, 2, Len(t))
    IN  IF Len(t) = 0 THEN ""
        ELSE CharAt(t, 1) \o
             (IF Len(rest) > 0 /\ IsSpace(CharAt(rest, 1)) THEN " " ELSE "") \o
             JoinWords(rest)

(***************************************************************************)
(* Python's statistics module, sorted, min and max on a list of prices.    *)
(***************************************************************************)
\* the sum statistics.mean divides: exact on the numbers, and the float sum
\* of inf, -inf and nan when the list holds any of them
RECURSIVE RSum(_)
RSum(xs) == IF xs = <<>> THEN Zero ELSE RAdd(Head(xs), RSum(Tail(xs)))

mean(xs) == RMul(RSum(xs), Rat(1, Len(xs)))

\* the length of the run at the head of xs, of which the first n elements
\* have been seen: it goes on while the next element is less than the one
\* before it (descending) or is not (ascending)
RECURSIVE count_run(_, _, _)
count_run(xs, n, descending) ==
    IF n < Len(xs) /\ RLt(xs[n + 1], xs[n]) = descending
    THEN count_run(xs, n + 1, descending)
    ELSE n

\* where binary insertion puts pivot among the sorted xs[l+1 .. r]: the
\* number of elements that stay before it
RECURSIVE InsertionPoint(_, _, _, _)
InsertionPoint(xs, pivot, l, r) ==
    LET p == l + (r - l) \div 2
    IN  IF l >= r THEN l
        ELSE IF RLt(pivot, xs[p + 1]) THEN InsertionPoint(xs, pivot, l, p)
        ELSE InsertionPoint(xs, pivot, p + 1, r)

\* binary insertion sort of xs, whose first start elements are sorted
RECURSIVE binarysort(_, _)
binarysort(xs, start) ==
    IF start >= Len(xs) THEN xs
    ELSE LET pivot == xs[start + 1]
             l == InsertionPoint(xs, pivot, 0, start)
         IN  binarysort(SubSeq(xs, 1, l) \o <<pivot>> \o SubSeq(xs, l + 1, start)
                            \o SubSeq(xs, start + 2, Len(xs)),
                        start + 1)

\* sorted(xs) for a list shorter than 64, as CPython's list.sort orders it:
\* the run at the head of the list, reversed when it descends, then the
\* rest by binary insertion.  Every comparison is a "<", so the place of a
\* nan, which is less than nothing, depends on the order of the list.
sorted(xs) ==
    IF Len(xs) < 2 THEN xs
    ELSE LET descending == RLt(xs[2], xs[1])
             n == count_run(xs, 2, descending)
         IN  binarysort([i \in 1..Len(xs) |->
                            IF descending /\ i <= n THEN xs[n + 1 - i] ELSE xs[i]], n)

median(xs) ==
    LET s == sorted(xs)
        n == Len(xs)
    IN  IF n % 2 = 1 THEN s[(n + 1) \div 2]
        ELSE RMul(RAdd(s[n \div 2], s[n \div 2 + 1]), Rat(1, 2))

RECURSIVE SumSqDev(_, _)
SumSqDev(xs, m) ==
    IF xs = <<>> THEN Zero
    ELSE LET d == RSub(Head(xs), m)
         IN  RAdd(RMul(d, d), SumSqDev(Tail(xs), m))

\* square of statistics.stdev on numbers: the sample variance, defined for
\* Len(xs) >= 2
variance(xs) == RMul(SumSqDev(xs, mean(xs)), Rat(1, Len(xs) - 1))

\* min(xs): the first element, replaced by every later one that is less
\* than the one held
RECURSIVE min(_)
min(xs) ==
    IF Len(xs) = 1 THEN xs[1]
    ELSE LET best == min(SubSeq(xs, 1, Len(xs) - 1))
         IN  IF RLt(xs[Len(xs)], best) THEN xs[Len(xs)] ELSE best

\* max(xs): the first element, replaced by every later one that is greater
\* than the one held
RECURSIVE max(_)
max(xs) ==
    IF Len(xs) = 1 THEN xs[1]
    ELSE LET best == max(SubSeq(xs, 1, Len(xs) - 1))
         IN  IF RLt(best, xs[Len(xs)]) THEN xs[Len(xs)] ELSE best

(***************************************************************************)
(* Binary floating point.  A double is [neg, m, e]: the number m * 2^e     *)
(* with the sign neg, m a whole number of 53 bits, or zero with m empty.   *)
(* Whole numbers of any size are the lists of their digits in base 2^15,   *)
(* the lowest digit first and no zero on top.  Every operation below is    *)
(* rounded to nearest, ties to even, as the machine rounds it.  Overflow   *)
(* and subnormal results do not arise on prices.                           *)
(***************************************************************************)
Base == 2^15

RECURSIVE BNorm(_)
BNorm(a) == IF a # <<>> /\ a[Len(a)] = 0 THEN BNorm(SubSeq(a, 1, Len(a) - 1)) ELSE a

RECURSIVE BFromInt(_)
BFromInt(n) == IF n = 0 THEN <<>> ELSE <<n % Base>> \o BFromInt(n \div Base)

\* -1, 0 or 1 as a is less than, equal to or greater than b
RECURSIVE BCmp(_, _)
BCmp(a, b) ==
    IF Len(a) # Len(b) THEN (IF Len(a) < Len(b) THEN -1 ELSE 1)
    ELSE IF a = <<>> THEN 0
    ELSE IF a[Len(a)] # b[Len(b)] THEN (IF a[Len(a)] < b[Len(b)] THEN -1 ELSE 1)
    ELSE BCmp(SubSeq(a, 1, Len(a) - 1), SubSeq(b, 1, Len(b) - 1))

\* the digit of a at place i, zero beyond its top
Digit(a, i) == IF i <= Len(a) THEN a[i] ELSE 0

RECURSIVE BAddC(_, _, _)
BAddC(a, b, carry) ==
    IF a = <<>> /\ b = <<>> THEN (IF carry = 0 THEN <<>> ELSE <<carry>>)
    ELSE LET x == (IF a = <<>> THEN 0 ELSE a[1]) + (IF b = <<>> THEN 0 ELSE b[1]) + carry
         IN  <<x % Base>> \o BAddC(IF a = <<>> THEN a ELSE Tail(a),
                                   IF b = <<>> THEN b ELSE Tail(b), x \div Base)

BAdd(a, b) == BAddC(a, b, 0)

RECURSIVE BSubB(_, _, _)
BSubB(a, b, borrow) ==
    IF a = <<>> THEN <<>>
    ELSE LET x == a[1] - (IF b = <<>> THEN 0 ELSE b[1]) - borrow
         IN  <<(x + Base) % Base>> \o BSubB(Tail(a), IF b = <<>> THEN b ELSE Tail(b),
                                            IF x < 0 THEN 1 ELSE 0)

\* a - b for a >= b
BSub(a, b) == BNorm(BSubB(a, b, 0))

RECURSIVE BMulSmallC(_, _, _)
BMulSmallC(a, k, carry) ==
    IF a = <<>> THEN (IF carry = 0 THEN <<>> ELSE <<carry>>)
    ELSE LET x == a[1] * k + carry
         IN  <<x % Base>> \o BMulSmallC(Tail(a), k, x \div Base)

\* a * k for 0 <= k < Base
BMulSmall(a, k) == IF k = 0 THEN <<>> ELSE BMulSmallC(a, k, 0)

RECURSIVE BMul(_, _)
BMul(a, b) ==
    IF a = <<>> \/ b = <<>> THEN <<>>
    ELSE BAdd(BMulSmall(a, b[1]), IF Len(b) = 1 THEN <<>> ELSE <<0>> \o BMul(a, Tail(b)))

\* the product of the numbers of xs
RECURSIVE BProduct(_)
BProduct(xs) == IF xs = <<>> THEN <<1>> ELSE BMul(Head(xs), BProduct(Tail(xs)))

\* a * 2^k
BShl(a, k) == IF a = <<>> THEN a ELSE [i \in 1..(k \div 15) |-> 0] \o BMulSmall(a, 2^(k % 15))

\* the remainder of a by k, 0 < k <= 8
RECURSIVE BRem(_, _)
BRem(a, k) == IF a = <<>> THEN 0 ELSE (BRem(Tail(a), k) * Base + a[1]) % k

\* quotient q and remainder r of a by k, 0 < k <= 8
BDivSmall(a, k) ==
    [q |-> BNorm([i \in 1..Len(a) |-> (BRem(SubSeq(a, i + 1, Len(a)), k) * Base + a[i]) \div k]),
     r |-> BRem(a, k)]

RECURSIVE IntBits(_)
IntBits(n) == IF n = 0 THEN 0 ELSE 1 + IntBits(n \div 2)

\* int.bit_length
BitLen(a) == IF a = <<>> THEN 0 ELSE 15 * (Len(a) - 1) + IntBits(a[Len(a)])

\* q + 2^i, for q a multiple of 2^(i+1)
SetBit(q, i) ==
    [j \in 1..(IF Len(q) > i \div 15 THEN Len(q) ELSE i \div 15 + 1) |->
        Digit(q, j) + (IF j = i \div 15 + 1 THEN 2^(i % 15) ELSE 0)]

\* the greatest q + j, j < 2^(i+1), with (q+j) * D <= N, or with
\* (q+j)^2 * D <= N when the root is asked for, q a multiple of 2^(i+1)
RECURSIVE FloorSearch(_, _, _, _, _)
FloorSearch(N, D, i, q, root) ==
    IF i < 0 THEN q
    ELSE LET c == SetBit(q, i)
         IN  IF BCmp(BProduct(IF root THEN <<c, c, D>> ELSE <<c, D>>), N) <= 0
             THEN FloorSearch(N, D, i - 1, c, root)
             ELSE FloorSearch(N, D, i - 1, q, root)

\* m * 2^e for m of 53 bits, or of 54 bits when rounding up carried
Carried(m, e) ==
    IF BitLen(m) = 54 THEN [m |-> BDivSmall(m, 2).q, e |-> e + 1] ELSE [m |-> m, e |-> e]

\* d.q + d.r / (2 * half) rounded to a whole number; inexact says that the
\* number was cut off from a greater one
RoundedUp(d, half, inexact) ==
    IF d.r > half \/ (d.r = half /\ (inexact \/ d.q[1] % 2 = 1)) THEN BAdd(d.q, <<1>>) ELSE d.q

\* q * 2^e, q of 53 + r bits, rounded to 53 bits
RoundBits(q, r, inexact, e) == Carried(RoundedUp(BDivSmall(q, 2^r), 2^(r - 1), inexact), e + r)

\* q * 2^e, q of 54 to 56 bits, rounded to 53 bits
RoundDouble(q, inexact, e) == RoundBits(q, BitLen(q) - 53, inexact, e)

\* the double nearest to q * 2^e, q the floor of Ns / Ds or of its root
FloatOfFloor(Ns, Ds, q, e, root) ==
    RoundDouble(q, BProduct(IF root THEN <<q, q, Ds>> ELSE <<q, Ds>>) # Ns, e)

\* the double nearest to Ns / Ds * 2^e, or to its square root times 2^e,
\* for Ns / Ds of 54 or 55 bits, or of twice as many
FloatOfQuotient(Ns, Ds, e, root) == FloatOfFloor(Ns, Ds, FloorSearch(Ns, Ds, 55, <<>>, root), e, root)

\* the double nearest to N / D * 2^e, or to its square root times 2^e,
\* N / D brought to that size by 2^shift, or by 4^shift under the root
FloatOfScaled(N, D, shift, e, root) ==
    FloatOfQuotient(IF shift >= 0 THEN BShl(N, shift * (IF root THEN 2 ELSE 1)) ELSE N,
                    IF shift >= 0 THEN D ELSE BShl(D, (-shift) * (IF root THEN 2 ELSE 1)),
                    e - shift, root)

\* the double nearest to N / D * 2^e, for N, D > 0
FloatOfFrac(N, D, e) == FloatOfScaled(N, D, 54 - (BitLen(N) - BitLen(D)), e, FALSE)

\* statistics._float_sqrt_of_frac: the double nearest to
\* sqrt(N / D) * 2^e, for N, D > 0
FloatSqrtOfFrac(N, D, e) == FloatOfScaled(N, D, (108 - (BitLen(N) - BitLen(D))) \div 2, e, TRUE)

FloatZero == [neg |-> FALSE, m |-> <<>>, e |-> 0]

Signed(neg, d) == [neg |-> neg, m |-> d.m, e |-> d.e]

\* float() of the decimal x
DoubleOf(x) ==
    IF x.num = 0 THEN FloatZero
    ELSE Signed(x.num < 0, FloatOfFrac(BFromInt(Abs(x.num)), BFromInt(x.den), 0))

\* the exponents of the doubles ds that are not zero
Exps(ds) == {ds[i].e : i \in {j \in 1..Len(ds) : ds[j].m # <<>>}}

\* the least of them
MinExp(ds) == IF Exps(ds) = {} THEN 0 ELSE CHOOSE e \in Exps(ds) : \A f \in Exps(ds) : e <= f

\* a + b on whole numbers with a sign, [neg, mag]
SAdd(a, b) ==
    IF a.neg = b.neg THEN [neg |-> a.neg, mag |-> BAdd(a.mag, b.mag)]
    ELSE IF BCmp(a.mag, b.mag) >= 0 THEN [neg |-> a.neg, mag |-> BSub(a.mag, b.mag)]
    ELSE [neg |-> b.neg, mag |-> BSub(b.mag, a.mag)]

\* the whole numbers d / 2^e of the doubles ds, for e at most their exponents
ScaledEach(ds, e) == [i \in 1..Len(ds) |-> [neg |-> ds[i].neg, mag |-> BShl(ds[i].m, ds[i].e - e)]]

RECURSIVE SSum(_)
SSum(xs) == IF xs = <<>> THEN [neg |-> FALSE, mag |-> <<>>] ELSE SAdd(Head(xs), SSum(Tail(xs)))

RECURSIVE BSumSq(_)
BSumSq(xs) == IF xs = <<>> THEN <<>> ELSE BAdd(BProduct(<<Head(xs).mag, Head(xs).mag>>), BSumSq(Tail(xs)))

\* total * 2^e / n
MeanOfTotal(total, n, e) ==
    IF total.mag = <<>> THEN FloatZero ELSE Signed(total.neg, FloatOfFrac(total.mag, BFromInt(n), e))

\* statistics.mean of the doubles ds: their exact sum over their number,
\* rounded once
FloatMean(ds) == MeanOfTotal(SSum(ScaledEach(ds, MinExp(ds))), Len(ds), MinExp(ds))

\* the square root of (n * sumsq - total^2) / (n * (n - 1)), times 2^e
StdevOfSums(total, sumsq, n, e) ==
    Signed(FALSE, FloatSqrtOfFrac(BSub(BMulSmall(sumsq, n), BProduct(<<total.mag, total.mag>>)),
                                  BFromInt(n * (n - 1)), e))

StdevOfScaled(xs, e) == StdevOfSums(SSum(xs), BSumSq(xs), Len(xs), e)

\* statistics.stdev of the doubles ds, which are not all equal: the square
\* root of their exact sample variance, rounded once
FloatStdev(ds) == StdevOfScaled(ScaledEach(ds, MinExp(ds)), MinExp(ds))

\* x * 2^e for the whole number x with its sign
FloatOfWhole(x, e) == IF x.mag = <<>> THEN FloatZero ELSE Signed(x.neg, FloatOfFrac(x.mag, <<1>>, e))

\* a - b on doubles
FloatSub(a, b) ==
    FloatOfWhole(SSum(ScaledEach(<<a, [neg |-> ~b.neg, m |-> b.m, e |-> b.e]>>, MinExp(<<a, b>>))),
                 MinExp(<<a, b>>))

\* a / b on doubles, b not zero
FloatDiv(a, b) ==
    IF a.m = <<>> THEN FloatZero
    ELSE Signed(a.neg # b.neg, FloatOfFrac(a.m, b.m, a.e - b.e))

\* abs(a) <= b on doubles, b not negative
FloatAbsLe(a, b) ==
    IF a.m = <<>> THEN TRUE
    ELSE IF b.m = <<>> THEN FALSE
    ELSE a.e < b.e \/ (a.e = b.e /\ BCmp(a.m, b.m) <= 0)

\* abs((price - mean) / stdev) <= threshold on doubles, ds those of the
\* prices
ZScoreOfDoubles(price, ds, threshold) ==
    FloatAbsLe(FloatDiv(FloatSub(price, FloatMean(ds)), FloatStdev(ds)), threshold)

\* abs((price - mean) / stdev) <= threshold as the program computes it, for
\* prices that are not all equal and a threshold that is not negative
FloatZScoreWithin(price, prices, threshold) ==
    ZScoreOfDoubles(DoubleOf(price), [i \in 1..Len(prices) |-> DoubleOf(prices[i])], DoubleOf(threshold))

(***************************************************************************)
(* config.py                                                               *)
(***************************************************************************)
outlier_threshold_low == Rat(15, 10)

outlier_threshold == Rat(25, 10)

min_sold_samples == 3

cache_duration_hours == 24

CONDITION_MAPPINGS ==
    ("like new" :> "LIKE_NEW") @@ ("very good" :> "USED_VERY_GOOD") @@
    ("good" :> "USED_GOOD") @@ ("acceptable" :> "USED_ACCEPTABLE") @@
    ("salvage" :> "FOR_PARTS_OR_NOT_WORKING") @@ ("likenew" :> "LIKE_NEW") @@
    ("like-new" :> "LIKE_NEW") @@ ("verygood" :> "USED_VERY_GOOD") @@
    ("very-good" :> "USED_VERY_GOOD") @@ ("vgood" :> "USED_VERY_GOOD") @@
    ("v good" :> "USED_VERY_GOOD") @@ ("vg" :> "USED_VERY_GOOD") @@
    ("new" :> "NEW") @@ ("brand new" :> "NEW") @@
    ("sealed" :> "NEW") @@ ("mint" :> "NEW") @@
    ("unopened" :> "NEW") @@ ("open box" :> "NEW_OTHER") @@
    ("new open box" :> "NEW_OTHER") @@ ("new other" :> "NEW_OTHER") @@
    ("new without tags" :> "NEW_OTHER") @@ ("graded" :> "LIKE_NEW") @@
    ("new with defects" :> "NEW_WITH_DEFECTS") @@ ("new damaged" :> "NEW_WITH_DEFECTS") @@
    ("new imperfect" :> "NEW_WITH_DEFECTS") @@ ("certified refurbished" :> "CERTIFIED_REFURBISHED") @@
    ("manufacturer refurbished" :> "CERTIFIED_REFURBISHED") @@ ("excellent refurbished" :> "EXCELLENT_REFURBISHED") @@
    ("very good refurbished" :> "VERY_GOOD_REFURBISHED") @@ ("good refurbished" :> "GOOD_REFURBISHED") @@
    ("seller refurbished" :> "SELLER_REFURBISHED") @@ ("refurbished" :> "SELLER_REFURBISHED") @@
    ("renewed" :> "SELLER_REFURBISHED") @@ ("restored" :> "SELLER_REFURBISHED") @@
    ("used excellent" :> "USED_EXCELLENT") @@ ("used like new" :> "LIKE_NEW") @@
    ("excellent" :> "USED_EXCELLENT") @@ ("near mint" :> "LIKE_NEW") @@
    ("used very good" :> "USED_VERY_GOOD") @@ ("light wear" :> "USED_VERY_GOOD") @@
    ("used good" :> "USED_GOOD") @@ ("moderate wear" :> "USED_GOOD") @@
    ("normal wear" :> "USED_GOOD") @@ ("used acceptable" :> "USED_ACCEPTABLE") @@
    ("fair" :> "USED_ACCEPTABLE") @@ ("heavy wear" :> "USED_ACCEPTABLE") @@
    ("well used" :> "USED_ACCEPTABLE") @@ ("pre owned excellent" :> "PRE_OWNED_EXCELLENT") @@
    ("pre owned fair" :> "PRE_OWNED_FAIR") @@ ("pre-owned excellent" :> "PRE_OWNED_EXCELLENT") @@
    ("pre-owned fair" :> "PRE_OWNED_FAIR") @@ ("for parts" :> "FOR_PARTS_OR_NOT_WORKING") @@
    ("not working" :> "FOR_PARTS_OR_NOT_WORKING") @@ ("broken" :> "FOR_PARTS_OR_NOT_WORKING") @@
    ("parts only" :> "FOR_PARTS_OR_NOT_WORKING") @@ ("repair" :> "FOR_PARTS_OR_NOT_WORKING") @@
    ("damaged" :> "FOR_PARTS_OR_NOT_WORKING") @@ ("scrap" :> "FOR_PARTS_OR_NOT_WORKING") @@
    ("parts" :> "FOR_PARTS_OR_NOT_WORKING")

base_multiplier == Rat(92, 100)

fallback_msrp_multiplier == Rat(50, 100)

condition_penalties ==
    ("LIKE_NEW" :> Rat(0, 100)) @@ ("USED_EXCELLENT" :> Rat(5, 100)) @@
    ("USED_VERY_GOOD" :> Rat(10, 100)) @@ ("USED_GOOD" :> Rat(10, 100)) @@
    ("USED_ACCEPTABLE" :> Rat(20, 100)) @@
    ("FOR_PARTS_OR_NOT_WORKING" :> Rat(50, 100))

min_offer_percentage == Rat(85, 100)

auto_accept_percentage == Rat(95, 100)

auto_decline_percentage == Rat(75, 100)

(***************************************************************************)
(* market_research.py: outlier rejection and sold statistics.              *)
(***************************************************************************)
\* abs((price - mean) / stdev) <= threshold.  The numbers are compared on
\* the squares where they differ: the prices and the threshold are ratios
\* of whole numbers below 2^31, so two sides that differ do so by more than
\* the rounding of the floats.  Where the numbers are equal the rounding
\* decides, and the floats are computed.
ZScoreWithin(price, prices, m, var, threshold) ==
    LET d == RSub(price, m)
        lhs == RMul(d, d)
        rhs == RMul(RMul(threshold, threshold), var)
    IN  IF threshold.den = 0 THEN threshold = Infinity
        ELSE IF threshold.num < 0 THEN FALSE
        ELSE IF lhs = rhs THEN FloatZScoreWithin(price, prices, threshold)
        ELSE FracLeq(lhs.num, lhs.den, rhs.num, rhs.den)

\* statistics.stdev raises on a list that holds inf, -inf or nan
StdevRaises(prices) == \E i \in 1..Len(prices) : prices[i].den = 0

\* the prices kept, or the median of all of them when none is kept
keep_median(filtered_prices, prices) ==
    IF filtered_prices = <<>> THEN <<median(prices)>> ELSE filtered_prices

remove_outliers_no_fallback(prices, threshold) ==
    LET thr == IF threshold = None THEN outlier_threshold ELSE threshold[1]
    IN  IF Len(prices) < 3 THEN prices
        ELSE IF StdevRaises(prices) THEN prices
        ELSE LET m == mean(prices)
                 var == variance(prices)
             IN  IF var = Zero THEN prices
                 ELSE SelectSeq(prices, LAMBDA p : ZScoreWithin(p, prices, m, var, thr))

remove_outliers(prices, threshold) ==
    LET thr == IF threshold = None THEN outlier_threshold ELSE threshold[1]
    IN  IF Len(prices) < 3 THEN prices
        ELSE IF StdevRaises(prices) THEN prices
        ELSE LET m == mean(prices)
                 var == variance(prices)
             IN  IF var = Zero THEN prices
                 ELSE keep_median(SelectSeq(prices, LAMBDA p : ZScoreWithin(p, prices, m, var, thr)),
                                  prices)

\* the statistics of the prices kept, with the count reported
price_statistics(filtered_prices, sold_count) ==
    [avg_sold_price |-> mean(filtered_prices),
     median_sold_price |-> median(filtered_prices),
     price_range_low |-> min(filtered_prices),
     price_range_high |-> max(filtered_prices),
     sold_count |-> sold_count]

calculate_sold_stats_filtered_count(sold_listings) ==
    IF sold_listings = <<>>
    THEN [avg_sold_price |-> Zero, median_sold_price |-> Zero,
          price_range_low |-> Zero, price_range_high |-> Zero, sold_count |-> 0]
    ELSE LET prices == [i \in 1..Len(sold_listings) |-> sold_listings[i].price]
         IN  price_statistics(remove_outliers(prices, None), Len(remove_outliers(prices, None)))

calculate_sold_stats(sold_listings) ==
    IF sold_listings = <<>>
    THEN [avg_sold_price |-> Zero, median_sold_price |-> Zero,
          price_range_low |-> Zero, price_range_high |-> Zero, sold_count |-> 0]
    ELSE LET prices == [i \in 1..Len(sold_listings) |-> sold_listings[i].price]
         IN  price_statistics(remove_outliers(prices, None), Len(sold_listings))

(***************************************************************************)
(* pricing_engine.py: the tiered pricing calculator.                       *)
(* The reasoning text is kept as the facts it states: the tier, the base   *)
(* price and the condition penalty.                                        *)
(***************************************************************************)
PricingRecommendation(bin, min_offer, auto_accept, auto_decline, conf, why, md) ==
    [buy_it_now_price |-> bin,
     min_offer_price |-> min_offer,
     auto_accept_offer |-> auto_accept,
     auto_decline_offer |-> auto_decline,
     auction_start_price |-> None,
     auction_reserve_price |-> None,
     confidence |-> conf,
     reasoning |-> why,
     market_data |-> md]

pricing_tier_active_first(market_data, retail_price) ==
    IF market_data.active_listing_count > 0 THEN "active"
    ELSE IF market_data.sold_count >= min_sold_samples THEN "sold"
    ELSE IF retail_price # None /\ RLt(Zero, retail_price[1]) THEN "fallback"
    ELSE "none"

pricing_tier_any_retail(market_data, retail_price) ==
    IF market_data.sold_count >= min_sold_samples THEN "sold"
    ELSE IF market_data.active_listing_count > 0 THEN "active"
    ELSE IF retail_price # None THEN "fallback"
    ELSE "none"

pricing_tier_any_sold(market_data, retail_price) ==
    IF market_data.sold_count > 0 THEN "sold"
    ELSE IF market_data.active_listing_count > 0 THEN "active"
    ELSE IF retail_price # None /\ RLt(Zero, retail_price[1]) THEN "fallback"
    ELSE "none"

\* the first satisfied tier, in the order sold, active, fallback, none
pricing_tier(market_data, retail_price) ==
    IF market_data.sold_count >= min_sold_samples THEN "sold"
    ELSE IF market_data.active_listing_count > 0 THEN "active"
    ELSE IF retail_price # None /\ RLt(Zero, retail_price[1]) THEN "fallback"
    ELSE "none"

base_price(tier, market_data, retail_price) ==
    CASE tier = "sold" -> market_data.avg_sold_price
      [] tier = "active" -> RMul(market_data.avg_active_price, Rat(95, 100))
      [] tier = "fallback" -> RMul(retail_price[1], fallback_msrp_multiplier)

confidence(tier) ==
    CASE tier = "sold" -> Rat(9, 10)
      [] tier = "active" -> Rat(6, 10)
      [] tier = "fallback" -> Rat(3, 10)

condition_penalty_default_zero(condition) ==
    IF condition \in DOMAIN condition_penalties
    THEN condition_penalties[condition] ELSE Rat(0, 100)

condition_penalty_good_free(condition) ==
    IF condition = "USED_GOOD" THEN Rat(0, 100)
    ELSE IF condition \in DOMAIN condition_penalties
    THEN condition_penalties[condition] ELSE Rat(10, 100)

condition_penalty(condition) ==
    IF condition \in DOMAIN condition_penalties
    THEN condition_penalties[condition] ELSE Rat(10, 100)

buy_it_now_price(base, condition) ==
    LET price_after_multiplier == RMul(base, base_multiplier)
    IN  RMul(price_after_multiplier, RSub(Rat(1, 1), condition_penalty(condition)))

\* one best-offer threshold: a fraction of the BIN price, unset when best
\* offer is disabled
offer_threshold_always(bin, percentage) == Some(RMul(bin, percentage))

offer_threshold(bin, percentage) ==
    IF best_offer_enabled THEN Some(RMul(bin, percentage)) ELSE None

calculate_pricing_from_market_data(market_data, condition, retail_price) ==
    LET tier == pricing_tier(market_data, retail_price)
        base == base_price(tier, market_data, retail_price)
        bin == buy_it_now_price(base, condition)
    IN  IF tier = "none"
        THEN PricingRecommendation(Zero, None, None, None, Zero,
                 [tier |-> "none", base_price |-> None, condition_penalty |-> None],
                 market_data)
        ELSE PricingRecommendation(
                 bin,
                 offer_threshold(bin, min_offer_percentage),
                 offer_threshold(bin, auto_accept_percentage),
                 offer_threshold(bin, auto_decline_percentage),
                 confidence(tier),
                 [tier |-> tier, base_price |-> Some(base),
                  condition_penalty |-> Some(condition_penalty(condition))],
                 market_data)

(***************************************************************************)
(* ebay_pricing/__init__.py: the aggregated market record.                 *)
(***************************************************************************)
MarketData(brand, model, condition) ==
    [brand |-> brand, model |-> model, condition |-> condition,
     avg_sold_price |-> Zero, median_sold_price |-> Zero,
     price_range_low |-> Zero, price_range_high |-> Zero,
     sold_count |-> 0, sold_listings |-> <<>>,
     active_listing_count |-> 0, avg_active_price |-> Zero,
     median_active_price |-> Zero,
     confidence |-> Zero, data_age_hours |-> 0, sources |-> <<>>,
     created_at |-> now]

\* a sold listing; sold_date is a datetime, url None or Some(text)
SoldListing(title, price, sold_date, condition, source, url) ==
    [price |-> price, condition |-> condition, title |-> title, sold_date |-> sold_date,
     source |-> source, url |-> url]

(***************************************************************************)
(* browse_api.py: the minimum price that keeps accessories out of the      *)
(* search for active listings.                                             *)
(***************************************************************************)
\* Python's "sub in s" on strings
Contains(s, sub) ==
    \E i \in 1..(Len(s) - Len(sub) + 1) : SubSeq(s, i, i + Len(sub) - 1) = sub

\* Python's any(kw in s for kw in keywords)
AnyIn(keywords, s) == \E kw \in keywords : Contains(s, kw)

laptop_brands ==
    {"apple", "dell", "hp", "lenovo", "asus", "acer", "microsoft", "razer", "msi"}

laptop_keywords == {"macbook", "laptop", "notebook", "chromebook", "surface", "thinkpad"}

console_brands == {"nintendo", "sony", "microsoft", "valve"}

console_keywords == {"switch", "playstation", "ps4", "ps5", "xbox", "steam deck"}

tablet_keywords == {"ipad", "tablet", "tab", "kindle"}

phone_keywords == {"iphone", "galaxy", "pixel", "phone"}

camera_brands == {"canon", "nikon", "sony", "fujifilm", "panasonic", "olympus"}

camera_keywords == {"camera", "dslr", "mirrorless"}

_get_minimum_price_filter_tablet_first(brand, model) ==
    LET brand_lower == lower(brand)
        model_lower == lower(model)
    IN  IF AnyIn(tablet_keywords, model_lower) THEN Rat(80, 1)
        ELSE IF brand_lower \in laptop_brands \/ AnyIn(laptop_keywords, model_lower)
        THEN Rat(200, 1)
        ELSE IF brand_lower \in console_brands \/ AnyIn(console_keywords, model_lower)
        THEN Rat(100, 1)
        ELSE IF AnyIn(phone_keywords, model_lower) THEN Rat(75, 1)
        ELSE IF brand_lower \in camera_brands \/ AnyIn(camera_keywords, model_lower)
        THEN Rat(100, 1)
        ELSE Rat(50, 1)

_get_minimum_price_filter(brand, model) ==
    LET brand_lower == lower(brand)
        model_lower == lower(model)
    IN  IF brand_lower \in laptop_brands \/ AnyIn(laptop_keywords, model_lower)
        THEN Rat(200, 1)
        ELSE IF brand_lower \in console_brands \/ AnyIn(console_keywords, model_lower)
        THEN Rat(100, 1)
        ELSE IF AnyIn(tablet_keywords, model_lower) THEN Rat(80, 1)
        ELSE IF AnyIn(phone_keywords, model_lower) THEN Rat(75, 1)
        ELSE IF brand_lower \in camera_brands \/ AnyIn(camera_keywords, model_lower)
        THEN Rat(100, 1)
        ELSE Rat(50, 1)

(***************************************************************************)
(* browse_api.py: statistics of the active listings.  api is the outcome   *)
(* of the Browse API search: it raises, or it answers with itemSummaries   *)
(* and a total.  An item is its 'price' entry: price is "object" for a     *)
(* dictionary and "null" for None; value tells what the dictionary holds   *)
(* under 'value': "text" for a string, "number" for a JSON number, "none"  *)
(* for nothing; number is the number written or given, None for a string   *)
(* that is not a number.                                                   *)
(***************************************************************************)
\* {'price': {'value': '300.00'}}, as the Browse API answers
PriceText(r) == [price |-> "object", value |-> "text", number |-> Some(r)]

\* {'price': {'value': 300.0}}
PriceNumber(r) == [price |-> "object", value |-> "number", number |-> Some(r)]

\* {'price': {'value': 'N/A'}}: float() raises ValueError on the text
PriceNotNumber == [price |-> "object", value |-> "text", number |-> None]

\* an item without 'price', or a price without 'value', or with the value
\* None or ''
NoPriceValue == [price |-> "object", value |-> "none", number |-> None]

\* {'price': None}: price_data.get raises AttributeError
NullPrice == [price |-> "null", value |-> "none", number |-> None]

\* "if value:" on the value of an item: a string that is not empty, a number
\* that is not zero
ValueIsTrue(item) ==
    \/ item.value = "text"
    \/ item.value = "number" /\ item.number[1] # Zero

analyze_active_competition(api) ==
    LET item_summaries == IF api.raises THEN <<>> ELSE api.itemSummaries
        raised == \E i \in 1..Len(item_summaries) : item_summaries[i].price = "null"
        valued == SelectSeq(item_summaries,
                            LAMBDA item : ValueIsTrue(item) /\ item.number # None)
        prices == [i \in 1..Len(valued) |-> valued[i].number[1]]
    IN  IF item_summaries = <<>> \/ raised
        THEN [avg_active_price |-> Zero, median_active_price |-> Zero,
              active_listing_count |-> 0]
        ELSE IF prices = <<>>
        THEN [avg_active_price |-> Zero, median_active_price |-> Zero,
              active_listing_count |-> api.total]
        ELSE [avg_active_price |-> mean(prices), median_active_price |-> median(prices),
              active_listing_count |-> Len(prices)]

(***************************************************************************)
(* pricing_engine.py: the aggregator.  research is the outcome of the      *)
(* sold-comp research: it raises, or it returns a list of sold listings.   *)
(***************************************************************************)
fetch_market_data_abort_on_error(brand, model, condition, research, api) ==
    LET fresh == MarketData(brand, model, condition)
        set_sold(market_data, sold_stats) ==
            [market_data EXCEPT !.sold_listings = research.listings,
                                !.avg_sold_price = sold_stats.avg_sold_price,
                                !.median_sold_price = sold_stats.median_sold_price,
                                !.price_range_low = sold_stats.price_range_low,
                                !.price_range_high = sold_stats.price_range_high,
                                !.sold_count = sold_stats.sold_count,
                                !.sources = Append(@, "ai_research")]
        set_active(market_data, active_stats) ==
            IF active_stats.active_listing_count > 0
            THEN [market_data EXCEPT
                      !.avg_active_price = active_stats.avg_active_price,
                      !.median_active_price = active_stats.median_active_price,
                      !.active_listing_count = active_stats.active_listing_count,
                      !.sources = Append(@, "browse_api")]
            ELSE market_data
        with_sold ==
            IF ~research.raises /\ research.listings # <<>>
            THEN set_sold(fresh, calculate_sold_stats(research.listings))
            ELSE fresh
    IN  IF research.raises THEN fresh
        ELSE set_active(with_sold, analyze_active_competition(api))

fetch_market_data_count_dropped(brand, model, condition, research, api) ==
    LET fresh == MarketData(brand, model, condition)
        set_sold(market_data, sold_stats) ==
            [market_data EXCEPT !.sold_listings = research.listings,
                                !.avg_sold_price = sold_stats.avg_sold_price,
                                !.median_sold_price = sold_stats.median_sold_price,
                                !.price_range_low = sold_stats.price_range_low,
                                !.price_range_high = sold_stats.price_range_high,
                                !.sources = Append(@, "ai_research")]
        set_active(market_data, active_stats) ==
            IF active_stats.active_listing_count > 0
            THEN [market_data EXCEPT
                      !.avg_active_price = active_stats.avg_active_price,
                      !.median_active_price = active_stats.median_active_price,
                      !.active_listing_count = active_stats.active_listing_count,
                      !.sources = Append(@, "browse_api")]
            ELSE market_data
        with_sold ==
            IF ~research.raises /\ research.listings # <<>>
            THEN set_sold(fresh, calculate_sold_stats(research.listings))
            ELSE fresh
    IN  set_active(with_sold, analyze_active_competition(api))

fetch_market_data(brand, model, condition, research, api) ==
    LET fresh == MarketData(brand, model, condition)
        set_sold(market_data, sold_stats) ==
            [market_data EXCEPT !.sold_listings = research.listings,
                                !.avg_sold_price = sold_stats.avg_sold_price,
                                !.median_sold_price = sold_stats.median_sold_price,
                                !.price_range_low = sold_stats.price_range_low,
                                !.price_range_high = sold_stats.price_range_high,
                                !.sold_count = sold_stats.sold_count,
                                !.sources = Append(@, "ai_research")]
        set_active(market_data, active_stats) ==
            IF active_stats.active_listing_count > 0
            THEN [market_data EXCEPT
                      !.avg_active_price = active_stats.avg_active_price,
                      !.median_active_price = active_stats.median_active_price,
                      !.active_listing_count = active_stats.active_listing_count,
                      !.sources = Append(@, "browse_api")]
            ELSE market_data
        with_sold ==
            IF ~research.raises /\ research.listings # <<>>
            THEN set_sold(fresh, calculate_sold_stats(research.listings))
            ELSE fresh
    IN  set_active(with_sold, analyze_active_competition(api))

(***************************************************************************)
(* datetime, as CPython computes it.  A datetime is the record of its      *)
(* fields; tzinfo is None or a fixed offset from UTC, in seconds and       *)
(* microseconds of one sign.  isoformat writes the text, fromisoformat     *)
(* parses it and gives None where Python raises ValueError.  Places in a   *)
(* text count from 0, and the character past the end of a text is "".      *)
(***************************************************************************)
datetime(year, month, day, hour, minute, second, microsecond, tzinfo) ==
    [year |-> year, month |-> month, day |-> day, hour |-> hour, minute |-> minute,
     second |-> second, microsecond |-> microsecond, tzinfo |-> tzinfo]

\* timezone(timedelta(seconds=seconds, microseconds=microseconds))
timezone(seconds, microseconds) == [seconds |-> seconds, microseconds |-> microseconds]

AsciiDigits == "0123456789"

is_digit(c) == c \in Chars(AsciiDigits)

\* the characters of one byte in UTF-8, the ones a string of this language
\* can hold
Ascii ==
    Chars(" !\"#$%&'()*+,-./0123456789:;<=>?@ABCDEFGHIJKLMNOPQRSTUVWXYZ[\\]^_")
    \cup Chars("abcdefghijklmnopqrstuvwxyz{|}~") \cup {"\t", "\n", "\r", "\f"}
    \cup {"", "", "", "", "", "", "", "", "", "", "", "", "", "", "", "", "", "", "", "", "", "", "", "", "", "", "", ""}

At(s, p) == IF 0 <= p /\ p < Len(s) THEN CharAt(s, p + 1) ELSE ""

\* "%0*d": the decimal digits of n, with zeros in front up to the width
RECURSIVE ZeroPadded(_, _)
ZeroPadded(n, width) ==
    IF n < 10 /\ width <= 1 THEN CharAt(AsciiDigits, n + 1)
    ELSE ZeroPadded(n \div 10, width - 1) \o CharAt(AsciiDigits, (n % 10) + 1)

\* the text of a fixed offset: sign, hours and minutes, then the seconds
\* and the microseconds where there are any
OffsetText(negative, seconds, microseconds) ==
    (IF negative THEN "-" ELSE "+")
    \o ZeroPadded(seconds \div 3600, 2) \o ":" \o ZeroPadded((seconds \div 60) % 60, 2)
    \o (IF microseconds # 0
        THEN ":" \o ZeroPadded(seconds % 60, 2) \o "." \o ZeroPadded(microseconds, 6)
        ELSE IF seconds % 60 # 0 THEN ":" \o ZeroPadded(seconds % 60, 2)
        ELSE "")

\* the offset's size, as whole seconds and microseconds from 0 to 999999
OffsetSize(seconds, microseconds) ==
    IF microseconds < 0 THEN [seconds |-> seconds - 1, microseconds |-> microseconds + 1000000]
    ELSE [seconds |-> seconds, microseconds |-> microseconds]

utcoffset_text(tz) ==
    LET negative == tz.seconds < 0 \/ (tz.seconds = 0 /\ tz.microseconds < 0)
        size == IF negative THEN OffsetSize(-tz.seconds, -tz.microseconds)
                ELSE OffsetSize(tz.seconds, tz.microseconds)
    IN  OffsetText(negative, size.seconds, size.microseconds)

\* datetime.isoformat()
isoformat(dt) ==
    ZeroPadded(dt.year, 4) \o "-" \o ZeroPadded(dt.month, 2) \o "-" \o ZeroPadded(dt.day, 2)
    \o "T" \o ZeroPadded(dt.hour, 2) \o ":" \o ZeroPadded(dt.minute, 2)
    \o ":" \o ZeroPadded(dt.second, 2)
    \o (IF dt.microsecond # 0 THEN "." \o ZeroPadded(dt.microsecond, 6) ELSE "")
    \o (IF dt.tzinfo = None THEN "" ELSE utcoffset_text(dt.tzinfo[1]))

\* var with the digit c behind it, -1 when c is no digit or var is -1
WithDigit(var, c) ==
    IF var < 0 \/ ~is_digit(c) THEN -1
    ELSE var * 10 + (CHOOSE d \in 0..9 : CharAt(AsciiDigits, d + 1) = c)

\* the number the num_digits characters from place p on spell, -1 when one
\* of them is no digit
RECURSIVE parse_digits(_, _, _)
parse_digits(s, p, num_digits) ==
    IF num_digits <= 0 THEN 0
    ELSE WithDigit(parse_digits(s, p, num_digits - 1), At(s, p + num_digits - 1))

\* division and remainder of C, rounding towards zero
divide(a, b) == IF a >= 0 THEN a \div b ELSE -((-a) \div b)

remainder(a, b) == a - b * divide(a, b)

_days_before_month == <<0, 31, 59, 90, 120, 151, 181, 212, 243, 273, 304, 334>>

_days_in_month == <<31, 28, 31, 30, 31, 30, 31, 31, 30, 31, 30, 31>>

is_leap(year) == year % 4 = 0 /\ (year % 100 # 0 \/ year % 400 = 0)

days_in_month(year, month) ==
    IF month = 2 /\ is_leap(year) THEN 29 ELSE _days_in_month[month]

days_before_month(year, month) ==
    _days_before_month[month] + (IF month > 2 /\ is_leap(year) THEN 1 ELSE 0)

days_before_year(year) ==
    (year - 1) * 365 + divide(year - 1, 4) - divide(year - 1, 100) + divide(year - 1, 400)

ymd_to_ord(year, month, day) ==
    days_before_year(year) + days_before_month(year, month) + day

weekday(year, month, day) == remainder(ymd_to_ord(year, month, day) + 6, 7)

iso_week1_monday(year) ==
    LET first_day == ymd_to_ord(year, 1, 1)
        first_weekday == remainder(first_day + 6, 7)
    IN  first_day - first_weekday + (IF first_weekday > 3 THEN 7 ELSE 0)

\* the date of the day with the ordinal, day 1 being 0001-01-01
ord_to_ymd(ordinal) ==
    LET n400 == (ordinal - 1) \div 146097
        in400 == (ordinal - 1) % 146097
        n100 == in400 \div 36524
        in100 == in400 % 36524
        n4 == in100 \div 1461
        in4 == in100 % 1461
        n1 == in4 \div 365
        n == in4 % 365
        year == n400 * 400 + 1 + n100 * 100 + n4 * 4 + n1
        leapyear == n1 = 3 /\ (n4 # 24 \/ n100 = 3)
        month == (n + 50) \div 32
        preceding == _days_before_month[month] + (IF month > 2 /\ leapyear THEN 1 ELSE 0)
    IN  IF n1 = 4 \/ n100 = 4 THEN <<year - 1, 12, 31>>
        ELSE IF preceding > n
        THEN <<year, month - 1,
               n - (preceding - (IF month - 1 = 2 /\ leapyear THEN 29
                                 ELSE _days_in_month[month - 1])) + 1>>
        ELSE <<year, month, n - preceding + 1>>

\* the date of a day of an ISO week, None when the week or the day is out
\* of range or the day is before 0001-01-01
iso_to_ymd(iso_year, iso_week, iso_day) ==
    IF (iso_week <= 0 \/ iso_week >= 53)
       /\ ~(iso_week = 53
            /\ (weekday(iso_year, 1, 1) = 3
                \/ (weekday(iso_year, 1, 1) = 2 /\ is_leap(iso_year))))
    THEN None
    ELSE IF iso_day <= 0 \/ iso_day >= 8 \/ iso_year < 1 THEN None
    ELSE Some(ord_to_ymd(iso_week1_monday(iso_year) + (iso_week - 1) * 7 + iso_day - 1))

\* the first place from idx on that holds no digit
RECURSIVE SkipDigits(_, _)
SkipDigits(s, idx) == IF is_digit(At(s, idx)) THEN SkipDigits(s, idx + 1) ELSE idx

\* the place of the character between the date and the time, -1 when the
\* date is cut short
_find_isoformat_datetime_separator(dtstr) ==
    LET len == Len(dtstr)
    IN  IF len = 7 THEN 7
        ELSE IF At(dtstr, 4) = "-"
        THEN IF At(dtstr, 5) = "W"
             THEN IF len < 8 THEN -1
                  ELSE IF len > 8 /\ At(dtstr, 8) = "-"
                  THEN IF len = 9 THEN -1
                       ELSE IF len > 10 /\ is_digit(At(dtstr, 10)) THEN 8
                       ELSE 10
                  ELSE 8
             ELSE 10
        ELSE IF At(dtstr, 4) = "W"
        THEN IF SkipDigits(dtstr, 7) < 9 THEN SkipDigits(dtstr, 7)
             ELSE IF SkipDigits(dtstr, 7) % 2 = 0 THEN 7
             ELSE 8
        ELSE 8

\* the week date from place p on, after the "W"; a len of -1 is the
\* largest size there is
IsoWeekDate(dtstr, len, year, p, uses_separator) ==
    LET iso_week == parse_digits(dtstr, p, 2)
        day_at == IF uses_separator THEN p + 3 ELSE p + 2
    IN  IF iso_week < 0 THEN None
        ELSE IF len >= 0 /\ p + 2 >= len THEN iso_to_ymd(year, iso_week, 1)
        ELSE IF uses_separator /\ At(dtstr, p + 2) # "-" THEN None
        ELSE IF parse_digits(dtstr, day_at, 1) < 0 THEN None
        ELSE iso_to_ymd(year, iso_week, parse_digits(dtstr, day_at, 1))

\* the calendar date from place p on, after the year
CalendarDate(dtstr, year, p, uses_separator) ==
    LET month == parse_digits(dtstr, p, 2)
        day_at == IF uses_separator THEN p + 3 ELSE p + 2
        day == parse_digits(dtstr, day_at, 2)
    IN  IF month < 0 THEN None
        ELSE IF uses_separator /\ At(dtstr, p + 2) # "-" THEN None
        ELSE IF day < 0 THEN None
        ELSE Some(<<year, month, day>>)

\* year, month and day of the date in the first len characters
parse_isoformat_date(dtstr, len) ==
    LET year == parse_digits(dtstr, 0, 4)
        uses_separator == At(dtstr, 4) = "-"
        p == IF uses_separator THEN 5 ELSE 4
    IN  IF year < 0 THEN None
        ELSE IF At(dtstr, p) = "W" THEN IsoWeekDate(dtstr, len, year, p + 1, uses_separator)
        ELSE CalendarDate(dtstr, year, p, uses_separator)

\* the fraction of a second from place p to p_end, and whether text is left
\* after the digits that follow
Fraction(tstr, p_end, p, vals) ==
    LET to_parse == IF p_end - p >= 6 THEN 6 ELSE p_end - p
    IN  IF parse_digits(tstr, p, to_parse) < 0 THEN None
        ELSE Some([rv |-> IF At(tstr, SkipDigits(tstr, p + to_parse)) # "" THEN 1 ELSE 0,
                   hour |-> vals[1], minute |-> vals[2], second |-> vals[3],
                   microsecond |-> parse_digits(tstr, p, to_parse) * 10^(6 - to_parse)])

\* the part of parse_hh_mm_ss_ff from its field i (0 the hour) on, at place
\* p, with the fields read so far and with the two digits at p.  A
\* character of several bytes is never the one before p_end, as the code
\* counts bytes.
RECURSIVE FieldsFrom(_, _, _, _, _, _, _)
FieldsFrom(tstr, p_end, i, p, has_separator, vals, field) ==
    LET c == At(tstr, p + 2)
        separated == IF i = 0 THEN c = ":" ELSE has_separator
    IN  IF field < 0 THEN None
        ELSE IF p + 3 >= p_end
        THEN IF c \notin Ascii \cup {""} THEN None
             ELSE Some([rv |-> IF c # "" THEN 1 ELSE 0,
                        hour |-> IF i = 0 THEN field ELSE vals[1],
                        minute |-> IF i = 1 THEN field ELSE vals[2],
                        second |-> IF i = 2 THEN field ELSE vals[3],
                        microsecond |-> 0])
        ELSE IF separated /\ c = ":"
        THEN IF i = 2 THEN Fraction(tstr, p_end, p + 3, [vals EXCEPT ![i + 1] = field])
             ELSE FieldsFrom(tstr, p_end, i + 1, p + 3, separated,
                             [vals EXCEPT ![i + 1] = field], parse_digits(tstr, p + 3, 2))
        ELSE IF c \in {".", ","}
        THEN Fraction(tstr, p_end, p + 3, [vals EXCEPT ![i + 1] = field])
        ELSE IF ~separated
        THEN IF i = 2 THEN Fraction(tstr, p_end, p + 2, [vals EXCEPT ![i + 1] = field])
             ELSE FieldsFrom(tstr, p_end, i + 1, p + 2, separated,
                             [vals EXCEPT ![i + 1] = field], parse_digits(tstr, p + 2, 2))
        ELSE None

parse_hh_mm_ss_ff(tstr, p_end) ==
    FieldsFrom(tstr, p_end, 0, 0, TRUE, <<0, 0, 0>>, parse_digits(tstr, 0, 2))

\* the place of the first "Z", "+" or "-" from place p on, the length of
\* the text (1 for the empty text) when there is none
RECURSIVE TzinfoPos(_, _)
TzinfoPos(p, pos) ==
    IF At(p, pos) \in {"Z", "+", "-"} THEN pos
    ELSE IF pos + 1 < Len(p) THEN TzinfoPos(p, pos + 1)
    ELSE pos + 1

\* the time with the offset read from the text after the sign
TimeWithOffset(time, sign, offset) ==
    IF offset = None THEN None
    ELSE IF offset[1].rv # 0 THEN None
    ELSE Some([time EXCEPT !.tzinfo =
                  Some(timezone(sign * (offset[1].hour * 3600 + offset[1].minute * 60
                                        + offset[1].second),
                                sign * offset[1].microsecond))])

\* the time of the fields read, without an offset
NaiveTime(fields) ==
    [hour |-> fields.hour, minute |-> fields.minute, second |-> fields.second,
     microsecond |-> fields.microsecond, tzinfo |-> None]

\* the time in the text whose fields, read up to tzinfo_pos, are parsed
TimeAndOffset(p, tzinfo_pos, parsed) ==
    IF parsed = None THEN None
    ELSE IF tzinfo_pos >= Len(p)
    THEN (IF parsed[1].rv = 1 THEN None ELSE Some(NaiveTime(parsed[1])))
    ELSE IF At(p, tzinfo_pos) = "Z"
    THEN IF At(p, tzinfo_pos + 1) # "" THEN None
         ELSE Some([NaiveTime(parsed[1]) EXCEPT !.tzinfo = Some(timezone(0, 0))])
    ELSE TimeWithOffset(NaiveTime(parsed[1]), IF At(p, tzinfo_pos) = "-" THEN -1 ELSE 1,
                        parse_hh_mm_ss_ff(SubSeq(p, tzinfo_pos + 2, Len(p)),
                                          Len(p) - tzinfo_pos - 1))

\* hour, minute, second, microsecond and offset of the time in the text
parse_isoformat_time(p) ==
    TimeAndOffset(p, TzinfoPos(p, 0), parse_hh_mm_ss_ff(p, TzinfoPos(p, 0)))

\* an offset of no seconds is UTC; an offset is less than a day
tzinfo_from_isoformat_results(tzinfo) ==
    IF tzinfo = None THEN Some(None)
    ELSE IF tzinfo[1].seconds = 0 THEN Some(Some(timezone(0, 0)))
    ELSE IF Abs(tzinfo[1].seconds) >= 86400 THEN None
    ELSE Some(tzinfo)

\* the datetime of a date and a time with the offset tzinfo, once the
\* fields are in range
new_datetime(date, time, tzinfo) ==
    IF tzinfo = None THEN None
    ELSE IF ~(/\ 1 <= date[1] /\ date[1] <= 9999
              /\ 1 <= date[2] /\ date[2] <= 12
              /\ 1 <= date[3] /\ date[3] <= days_in_month(date[1], date[2]))
    THEN None
    ELSE IF ~(/\ time.hour <= 23 /\ time.minute <= 59 /\ time.second <= 59)
    THEN None
    ELSE Some(datetime(date[1], date[2], date[3], time.hour, time.minute,
                       time.second, time.microsecond, tzinfo[1]))

Midnight == [hour |-> 0, minute |-> 0, second |-> 0, microsecond |-> 0, tzinfo |-> None]

\* the datetime of the date and the time parsed, None when either failed
DateAndTime(date, time) ==
    IF date = None THEN None
    ELSE IF time = None THEN None
    ELSE new_datetime(date[1], time[1], tzinfo_from_isoformat_results(time[1].tzinfo))

\* datetime.fromisoformat(dtstr): Some(datetime), or None where it raises
\* ValueError
fromisoformat(dtstr) ==
    LET separator_location == _find_isoformat_datetime_separator(dtstr)
    IN  IF Len(dtstr) < 7 THEN None
        ELSE DateAndTime(parse_isoformat_date(dtstr, separator_location),
                         IF Len(dtstr) > separator_location
                         THEN parse_isoformat_time(SubSeq(dtstr, separator_location + 2,
                                                          Len(dtstr)))
                         ELSE Some(Midnight))

(***************************************************************************)
(* cache_manager.py: the cache store.  The cache is the set of rows of the *)
(* market_cache table.  A Python value that JSON can hold is a record of   *)
(* its type t and its content v: a list holds the sequence of its items, a *)
(* dict the sequence of its <<key, value>> pairs in insertion order.  A    *)
(* JSON text is the sequence of its tokens, the marks [ ] { } , : and the  *)
(* literals.  A literal is the record of the value it spells: a string     *)
(* literal stands for the quoted text with its escapes, a number literal   *)
(* for the digits json writes for the number and reads back as the same    *)
(* number.  NotJson is a text json.loads raises on.                        *)
(***************************************************************************)
PyStr(v) == [t |-> "str", v |-> v]

PyInt(v) == [t |-> "int", v |-> v]

PyFloat(v) == [t |-> "float", v |-> v]

PyNone == [t |-> "null", v |-> ""]

PyList(items) == [t |-> "list", v |-> items]

PyDict(pairs) == [t |-> "dict", v |-> pairs]

Literals == {"str", "int", "float", "bool", "null"}

Mark(c) == [t |-> c, v |-> ""]

RECURSIVE json_dumps(_)
RECURSIVE DumpItems(_)
RECURSIVE DumpPairs(_)
\* json.dumps(obj): the tokens of the text
json_dumps(obj) ==
    IF obj.t = "list" THEN <<Mark("[")>> \o DumpItems(obj.v) \o <<Mark("]")>>
    ELSE IF obj.t = "dict" THEN <<Mark("{")>> \o DumpPairs(obj.v) \o <<Mark("}")>>
    ELSE <<obj>>

DumpItems(items) ==
    IF Len(items) = 0 THEN <<>>
    ELSE IF Len(items) = 1 THEN json_dumps(items[1])
    ELSE json_dumps(items[1]) \o <<Mark(",")>> \o DumpItems(Tail(items))

DumpPairs(pairs) ==
    IF Len(pairs) = 0 THEN <<>>
    ELSE IF Len(pairs) = 1
    THEN <<PyStr(pairs[1][1]), Mark(":")>> \o json_dumps(pairs[1][2])
    ELSE <<PyStr(pairs[1][1]), Mark(":")>> \o json_dumps(pairs[1][2]) \o <<Mark(",")>>
         \o DumpPairs(Tail(pairs))

NotJson == <<>>

\* the kind of token i of the text, "" past its end
TokenAt(text, i) == IF i <= Len(text) THEN text[i].t ELSE ""

Parsed(value, next) == Some([value |-> value, next |-> next])

\* d[key] = value on the pairs of a dict
DictSet(pairs, key, value) ==
    IF \E j \in 1..Len(pairs) : pairs[j][1] = key
    THEN [j \in 1..Len(pairs) |-> IF pairs[j][1] = key THEN <<key, value>> ELSE pairs[j]]
    ELSE Append(pairs, <<key, value>>)

RECURSIVE ParseValue(_, _)
RECURSIVE ParseItems(_, _, _)
RECURSIVE ParsePairs(_, _, _, _)
\* the value whose text starts at token i and the place after it, None when
\* no value starts there
ParseValue(text, i) ==
    IF TokenAt(text, i) \in Literals THEN Parsed(text[i], i + 1)
    ELSE IF TokenAt(text, i) = "["
    THEN IF TokenAt(text, i + 1) = "]" THEN Parsed(PyList(<<>>), i + 2)
         ELSE ParseItems(text, <<>>, ParseValue(text, i + 1))
    ELSE IF TokenAt(text, i) = "{"
    THEN IF TokenAt(text, i + 1) = "}" THEN Parsed(PyDict(<<>>), i + 2)
         ELSE ParsePairs(text, i + 1, <<>>, ParseValue(text, i + 3))
    ELSE None

\* the rest of a list after the items, from the item parsed on
ParseItems(text, items, item) ==
    IF item = None THEN None
    ELSE IF TokenAt(text, item[1].next) = ","
    THEN ParseItems(text, Append(items, item[1].value), ParseValue(text, item[1].next + 1))
    ELSE IF TokenAt(text, item[1].next) = "]"
    THEN Parsed(PyList(Append(items, item[1].value)), item[1].next + 1)
    ELSE None

\* the rest of an object after the pairs, from the key at token i on, with
\* the value parsed at token i + 2; a key met again keeps its place and
\* takes the later value
ParsePairs(text, i, pairs, value) ==
    IF TokenAt(text, i) # "str" \/ TokenAt(text, i + 1) # ":" THEN None
    ELSE IF value = None THEN None
    ELSE IF TokenAt(text, value[1].next) = ","
    THEN ParsePairs(text, value[1].next + 1, DictSet(pairs, text[i].v, value[1].value),
                    ParseValue(text, value[1].next + 3))
    ELSE IF TokenAt(text, value[1].next) = "}"
    THEN Parsed(PyDict(DictSet(pairs, text[i].v, value[1].value)), value[1].next + 1)
    ELSE None

\* the value parsed when it is the whole of the text s
WholeText(s, obj) ==
    IF obj = None THEN None
    ELSE IF obj[1].next # Len(s) + 1 THEN None
    ELSE Some(obj[1].value)

\* json.loads(s): Some(value), or None where it raises JSONDecodeError
json_loads(s) == WholeText(s, ParseValue(s, 1))

\* key in d
HasKey(d, key) == \E j \in 1..Len(d.v) : d.v[j][1] = key

\* d[key], for a key in d
ValueOf(d, key) == d.v[CHOOSE j \in 1..Len(d.v) : d.v[j][1] = key][2]

\* d.get(key, default)
get(d, key, default) == IF HasKey(d, key) THEN ValueOf(d, key) ELSE default

\* the value as the program holds it: a str, int or float is its content,
\* None is None, a list the sequence of its items, a dict that of its pairs
RECURSIVE FromPy(_)
FromPy(obj) ==
    IF obj.t = "null" THEN None
    ELSE IF obj.t = "list" THEN [i \in 1..Len(obj.v) |-> FromPy(obj.v[i])]
    ELSE IF obj.t = "dict" THEN [i \in 1..Len(obj.v) |-> <<obj.v[i][1], FromPy(obj.v[i][2])>>]
    ELSE obj.v

_generate_cache_key(brand, model, condition) ==
    JoinWords(lower(brand)) \o "_" \o JoinWords(lower(model)) \o "_" \o strip(lower(condition))

\* the dict written for one sold listing
ListingData(listing) ==
    PyDict(<<<<"title", PyStr(listing.title)>>,
             <<"price", PyFloat(listing.price)>>,
             <<"sold_date", PyStr(isoformat(listing.sold_date))>>,
             <<"condition", PyStr(listing.condition)>>,
             <<"source", PyStr(listing.source)>>,
             <<"url", IF listing.url = None THEN PyNone ELSE PyStr(listing.url[1])>>>>)

_serialize_market_data(market_data) ==
    LET sold_listings_data ==
            [i \in 1..Len(market_data.sold_listings) |->
                ListingData(market_data.sold_listings[i])]
        data_dict ==
            PyDict(<<<<"brand", PyStr(market_data.brand)>>,
                     <<"model", PyStr(market_data.model)>>,
                     <<"condition", PyStr(market_data.condition)>>,
                     <<"avg_sold_price", PyFloat(market_data.avg_sold_price)>>,
                     <<"median_sold_price", PyFloat(market_data.median_sold_price)>>,
                     <<"price_range_low", PyFloat(market_data.price_range_low)>>,
                     <<"price_range_high", PyFloat(market_data.price_range_high)>>,
                     <<"sold_count", PyInt(market_data.sold_count)>>,
                     <<"sold_listings", PyList(sold_listings_data)>>,
                     <<"active_listing_count", PyInt(market_data.active_listing_count)>>,
                     <<"avg_active_price", PyFloat(market_data.avg_active_price)>>,
                     <<"median_active_price", PyFloat(market_data.median_active_price)>>,
                     <<"confidence", PyFloat(market_data.confidence)>>,
                     <<"sources", PyList([i \in 1..Len(market_data.sources) |->
                                             PyStr(market_data.sources[i])])>>>>)
    IN  json_dumps(data_dict)

\* what the loop over data_dict.get('sold_listings', []) visits: the items
\* of a list, nothing in an empty text or dict; None where the loop raises,
\* on a value that cannot be iterated or whose items are characters or keys
Iterated(obj) ==
    IF obj.t = "list" THEN Some(obj.v)
    ELSE IF obj.t \in {"str", "dict"} /\ Len(obj.v) = 0 THEN Some(<<>>)
    ELSE None

\* the SoldListing of a dict that has the keys, sold on the date parsed
ListingAt(listing_data, sold_date, url) ==
    IF sold_date = None THEN None
    ELSE Some(SoldListing(FromPy(ValueOf(listing_data, "title")),
                          FromPy(ValueOf(listing_data, "price")),
                          sold_date[1],
                          FromPy(ValueOf(listing_data, "condition")),
                          FromPy(ValueOf(listing_data, "source")),
                          IF url.t = "null" THEN None ELSE Some(FromPy(url))))

\* the SoldListing built from one item, None where building it raises: the
\* item is no dict, a key is missing, or sold_date is no text fromisoformat
\* accepts
ListingOf(listing_data) ==
    IF listing_data.t # "dict" THEN None
    ELSE IF \E key \in {"title", "price", "sold_date", "condition", "source"} :
                ~HasKey(listing_data, key)
    THEN None
    ELSE IF ValueOf(listing_data, "sold_date").t # "str" THEN None
    ELSE ListingAt(listing_data, fromisoformat(ValueOf(listing_data, "sold_date").v),
                   get(listing_data, "url", PyNone))

\* the record of a dict read from the text, with the listings built
RecordOf(data_dict, sold_listings) ==
    [MarketData(FromPy(ValueOf(data_dict, "brand")), FromPy(ValueOf(data_dict, "model")),
                FromPy(ValueOf(data_dict, "condition"))) EXCEPT
        !.avg_sold_price = FromPy(get(data_dict, "avg_sold_price", PyFloat(Zero))),
        !.median_sold_price = FromPy(get(data_dict, "median_sold_price", PyFloat(Zero))),
        !.price_range_low = FromPy(get(data_dict, "price_range_low", PyFloat(Zero))),
        !.price_range_high = FromPy(get(data_dict, "price_range_high", PyFloat(Zero))),
        !.sold_count = FromPy(get(data_dict, "sold_count", PyInt(0))),
        !.sold_listings = sold_listings,
        !.active_listing_count = FromPy(get(data_dict, "active_listing_count", PyInt(0))),
        !.avg_active_price = FromPy(get(data_dict, "avg_active_price", PyFloat(Zero))),
        !.median_active_price = FromPy(get(data_dict, "median_active_price", PyFloat(Zero))),
        !.confidence = FromPy(get(data_dict, "confidence", PyFloat(Zero))),
        !.sources = FromPy(get(data_dict, "sources", PyList(<<>>)))]

\* the record of the dict with the listings built from the items of its
\* sold_listings, None where one of them could not be built or brand, model
\* or condition is missing
WithListings(data_dict, built) ==
    IF \E i \in 1..Len(built) : built[i] = None THEN None
    ELSE IF \E key \in {"brand", "model", "condition"} : ~HasKey(data_dict, key) THEN None
    ELSE Some(RecordOf(data_dict, [i \in 1..Len(built) |-> built[i][1]]))

\* the record of the value json.loads returned, None where it raised or the
\* value is no dict or its sold_listings cannot be iterated
Loaded(data_dict) ==
    LET items == Iterated(get(data_dict[1], "sold_listings", PyList(<<>>)))
    IN  IF data_dict = None THEN None
        ELSE IF data_dict[1].t # "dict" THEN None
        ELSE IF items = None THEN None
        ELSE WithListings(data_dict[1],
                          [i \in 1..Len(items[1]) |-> ListingOf(items[1][i])])

_deserialize_market_data_whole_seconds(data_json) ==
    LET market_data == Loaded(json_loads(data_json))
    IN  IF market_data = None THEN None
        ELSE Some([market_data[1] EXCEPT
                      !.sold_listings =
                          [i \in 1..Len(@) |-> [@[i] EXCEPT !.sold_date.microsecond = 0]]])

\* Some(record), or None where the code raises: the text is no JSON or no
\* object, the listings cannot be built, or brand, model or condition is
\* missing
_deserialize_market_data(data_json) == Loaded(json_loads(data_json))

_delete_cache_entry_all(store, cache_key) ==
    {r \in store : r.cache_key # cache_key /\ r.expires_at >= now}

_delete_cache_entry(store, cache_key) ==
    {r \in store : r.cache_key # cache_key}

\* get_cached_market_data up to conn.close(): the row the SELECT returns
\* for the key, None when there is none
select_entry(store, cache_key) ==
    LET rows == {r \in store : r.cache_key = cache_key}
    IN  IF rows = {} THEN None ELSE Some(CHOOSE r \in rows : TRUE)

\* the try block of get_cached_market_data on what _deserialize_market_data
\* made of the text of the row: the record with its age, or the miss that
\* deletes the row where it raised
deserialized_entry(store, cache_key, row, market_data) ==
    IF market_data = None
    THEN [market_data |-> None, store |-> _delete_cache_entry(store, cache_key)]
    ELSE [market_data |->
             Some([market_data[1] EXCEPT !.data_age_hours = now - row.created_at]),
          store |-> store]

read_entry_keep_corrupt(store, cache_key, row) ==
    LET market_data == _deserialize_market_data(row.data_json)
    IN  IF now > row.expires_at
        THEN [market_data |-> None, store |-> _delete_cache_entry(store, cache_key)]
        ELSE IF market_data = None
        THEN [market_data |-> None, store |-> store]
        ELSE [market_data |->
                 Some([market_data[1] EXCEPT !.data_age_hours = now - row.created_at]),
              store |-> store]

\* get_cached_market_data after conn.close(), on the row that was selected
\* and the store as it is by now: the record returned (None on a miss) and
\* the store left behind.  The DELETE runs on a connection of its own and
\* names the key.
read_entry(store, cache_key, row) ==
    IF now > row.expires_at
    THEN [market_data |-> None, store |-> _delete_cache_entry(store, cache_key)]
    ELSE deserialized_entry(store, cache_key, row, _deserialize_market_data(row.data_json))

\* the read of one key when no statement of another caller comes between
\* its SELECT and the rest: the record returned and the store left behind
get_cached_market_data(store, brand, model, condition) ==
    LET cache_key == _generate_cache_key(brand, model, condition)
        row == select_entry(store, cache_key)
    IN  IF row = None THEN [market_data |-> None, store |-> store]
        ELSE read_entry(store, cache_key, row[1])

cache_market_data_insert_only(store, market_data) ==
    LET cache_key == _generate_cache_key(market_data.brand, market_data.model,
                                         market_data.condition)
        row == [cache_key |-> cache_key,
                brand |-> market_data.brand, model |-> market_data.model,
                condition |-> market_data.condition,
                data_json |-> _serialize_market_data(market_data),
                created_at |-> now,
                expires_at |-> now + cache_duration_hours]
    IN  store \cup {row}

\* INSERT OR REPLACE on the primary key cache_key
cache_market_data(store, market_data) ==
    LET cache_key == _generate_cache_key(market_data.brand, market_data.model,
                                         market_data.condition)
        row == [cache_key |-> cache_key,
                brand |-> market_data.brand, model |-> market_data.model,
                condition |-> market_data.condition,
                data_json |-> _serialize_market_data(market_data),
                created_at |-> now,
                expires_at |-> now + cache_duration_hours]
    IN  {r \in store : r.cache_key # cache_key} \cup {row}

clear_stale_cache_expired_now(store, max_age_hours) ==
    LET deleted == {r \in store : r.expires_at < now}
    IN  [deleted_count |-> Cardinality(deleted), store |-> store \ deleted]

\* the number of rows deleted and the store left behind
clear_stale_cache(store, max_age_hours) ==
    LET max_age == IF max_age_hours = None THEN cache_duration_hours
                   ELSE max_age_hours[1]
        cutoff_time == now - max_age
        deleted == {r \in store : r.expires_at < cutoff_time}
    IN  [deleted_count |-> Cardinality(deleted), store |-> store \ deleted]

clear_all_cache(store) ==
    [deleted_count |-> Cardinality(store), store |-> {}]

\* get_cache_stats after its first SELECT COUNT, which gave total_count:
\* the second SELECT COUNT, on the store as it is by now, and the result
get_cache_stats(total_count, store) ==
    LET valid_count == Cardinality({r \in store : r.expires_at >= now})
    IN  [total_entries |-> total_count, valid_entries |-> valid_count,
         stale_entries |-> total_count - valid_count]

(***************************************************************************)
(* upc_lookup.py: the UPC resolver.  A provider's answer to the HTTP       *)
(* request is a record: the request raises, or it returns a status code    *)
(* and the items found; an item's prices are numbers.  The session cache   *)
(* is a function from digit strings to results.                            *)
(***************************************************************************)
\* the decimal digits of every script, each run from its zero to its nine
Digits ==
    "0123456789۰۱۲۳۴۵۶۷۸۹߀߁߂߃߄߅߆߇߈߉০১২৩৪৫৬৭৮৯૦૧૨૩૪૫૬૭૮૯" \o
    "௦௧௨௩௪௫௬௭௮௯೦೧೨೩೪೫೬೭೮೯෦෧෨෩෪෫෬෭෮෯໐໑໒໓໔໕໖໗໘໙႐႑႒႓႔႕႖႗႘႙" \o
    "០១២៣៤៥៦៧៨៩᧐᧑᧒᧓᧔᧕᧖᧗᧘᧙᪀᪁᪂᪃᪄᪅᪆᪇᪈᪉᪐᪑᪒᪓᪔᪕᪖᪗᪘᪙᮰᮱᮲᮳᮴᮵᮶᮷᮸᮹" \o
    "꣐꣑꣒꣓꣔꣕꣖꣗꣘꣙꧐꧑꧒꧓꧔꧕꧖꧗꧘꧙꧰꧱꧲꧳꧴꧵꧶꧷꧸꧹꯰꯱꯲꯳꯴꯵꯶꯷꯸꯹"

\* the characters of str.isdigit that are no decimal digits: superscripts,
\* subscripts and digits in circles and with stops
OtherDigits ==
    "²³¹᧚₀₁₂₃₄₅₆₇₈₉⒈⒉⒊⒋⒌⒍⒎⒏⒐⓪⓵⓶⓷⓸⓹⓺⓻⓼⓽⓿➀➁➂➃➄➅➆➇➈➊➋➌➍➎➏➐" \o
    "➑➒"

DecimalChars == Chars(Digits)

DigitChars == Chars(Digits) \cup Chars(OtherDigits)

\* str.isdigit on one character
IsDigit(c) == c \in DigitChars

\* the characters float reads as digits
IsDecimal(c) == c \in DecimalChars

\* ''.join(filter(str.isdigit, upc))
RECURSIVE OnlyDigits(_)
OnlyDigits(s) ==
    IF Len(s) = 0 THEN ""
    ELSE (IF IsDigit(CharAt(s, 1)) THEN CharAt(s, 1) ELSE "") \o
         OnlyDigits(SubSeq(s, 2, Len(s)))

\* s.replace(ch, '') for one character ch
RECURSIVE Remove(_, _)
Remove(s, ch) ==
    IF Len(s) = 0 THEN ""
    ELSE (IF CharAt(s, 1) = ch THEN "" ELSE CharAt(s, 1)) \o Remove(SubSeq(s, 2, Len(s)), ch)

\* the value of each decimal digit: the digits of a script run from 0 to 9
DigitValues ==
    [c \in DecimalChars |-> ((CHOOSE i \in 1..Len(Digits) : CharAt(Digits, i) = c) - 1) % 10]

DigitValue(c) == DigitValues[c]

\* digits of a float literal: digits, single underscores between them
IsDigitRun(s) ==
    /\ Len(s) > 0
    /\ IsDecimal(CharAt(s, 1)) /\ IsDecimal(CharAt(s, Len(s)))
    /\ \A i \in 1..Len(s) : IsDecimal(CharAt(s, i)) \/ CharAt(s, i) = "_"
    /\ \A i \in 1..(Len(s) - 1) : ~(CharAt(s, i) = "_" /\ CharAt(s, i + 1) = "_")

\* the number a digit run writes, read after the digits of acc
RECURSIVE DigitRunValue(_, _)
DigitRunValue(s, acc) ==
    IF Len(s) = 0 THEN acc
    ELSE DigitRunValue(SubSeq(s, 2, Len(s)),
                       IF CharAt(s, 1) = "_" THEN acc ELSE 10 * acc + DigitValue(CharAt(s, 1)))

RECURSIVE CountDigits(_)
CountDigits(s) ==
    IF Len(s) = 0 THEN 0
    ELSE (IF IsDecimal(CharAt(s, 1)) THEN 1 ELSE 0) + CountDigits(SubSeq(s, 2, Len(s)))

RECURSIVE Pow10(_)
Pow10(n) == IF n = 0 THEN 1 ELSE 10 * Pow10(n - 1)

\* the position of the first character of s that is in chars, 0 when none
FirstOf(s, chars) ==
    IF \E i \in 1..Len(s) : CharAt(s, i) \in chars
    THEN CHOOSE i \in 1..Len(s) :
             /\ CharAt(s, i) \in chars
             /\ \A j \in 1..(i - 1) : CharAt(s, j) \notin chars
    ELSE 0

\* the text before position i of s and the text after it; s and "" when
\* i = 0
SplitAt(s, i) ==
    IF i = 0 THEN <<s, "">> ELSE <<SubSeq(s, 1, i - 1), SubSeq(s, i + 1, Len(s))>>

\* -1 for a text that begins with "-", else 1
SignOf(t) == IF Len(t) > 0 /\ CharAt(t, 1) = "-" THEN -1 ELSE 1

\* the text without its sign
Unsigned(t) ==
    IF Len(t) > 0 /\ CharAt(t, 1) \in {"+", "-"} THEN SubSeq(t, 2, Len(t)) ELSE t

\* digits * 10^power
FloatValue(digits, power) ==
    IF power >= 0 THEN Some(Rat(digits * Pow10(power), 1))
    ELSE Some(Rat(digits, Pow10(-power)))

\* the float written by the digits before and after the point and by the
\* exponent, which is there when has_exponent
FloatOfDigits(sign, whole, fraction, exponent, has_exponent) ==
    IF /\ whole = "" \/ IsDigitRun(whole)
       /\ fraction = "" \/ IsDigitRun(fraction)
       /\ whole # "" \/ fraction # ""
       /\ ~has_exponent \/ IsDigitRun(Unsigned(exponent))
    THEN FloatValue(sign * DigitRunValue(fraction, DigitRunValue(whole, 0)),
                    SignOf(exponent) * DigitRunValue(Unsigned(exponent), 0)
                        - CountDigits(fraction))
    ELSE None

\* the float written by the unsigned text u
FloatUnsigned(sign, u) ==
    IF lower(u) \in {"inf", "infinity"}
    THEN Some(IF sign = 1 THEN Infinity ELSE MinusInfinity)
    ELSE IF lower(u) = "nan" THEN Some(NaN)
    ELSE FloatOfDigits(sign,
             SplitAt(SplitAt(u, FirstOf(u, {"e", "E"}))[1],
                     FirstOf(SplitAt(u, FirstOf(u, {"e", "E"}))[1], {"."}))[1],
             SplitAt(SplitAt(u, FirstOf(u, {"e", "E"}))[1],
                     FirstOf(SplitAt(u, FirstOf(u, {"e", "E"}))[1], {"."}))[2],
             SplitAt(u, FirstOf(u, {"e", "E"}))[2],
             FirstOf(u, {"e", "E"}) # 0)

\* the whitespace float() skips around the number: that of str.strip
\* without the separators U+001C to U+001F, which float() rejects
FloatSpace == Whitespace \ {"", "", "", ""}

RECURSIVE FloatStrip(_)
FloatStrip(s) ==
    IF Len(s) > 0 /\ CharAt(s, 1) \in FloatSpace THEN FloatStrip(SubSeq(s, 2, Len(s)))
    ELSE IF Len(s) > 0 /\ CharAt(s, Len(s)) \in FloatSpace
    THEN FloatStrip(SubSeq(s, 1, Len(s) - 1))
    ELSE s

\* float(text): Some(number), or None where float raises ValueError.  The
\* text is a sign, then digits with a point or "inf", "infinity" or "nan",
\* then an exponent, between whitespace.
float(text) == FloatUnsigned(SignOf(FloatStrip(text)), Unsigned(FloatStrip(text)))

\* what a provider gives as a price: nothing (the key is missing, or null),
\* a JSON number, or a string
NoPriceGiven == [json |-> "null", text |-> "", number |-> Zero]

PriceGiven(r) == [json |-> "number", text |-> "", number |-> r]

PriceString(text) == [json |-> "string", text |-> text, number |-> Zero]

\* _parse_price(price_str): None for nothing, 0 and ''; else the float of
\* the text without '$' and ',', None when there is no text left or float
\* raises.  str() of a number writes it so that float() reads it back.
_parse_price(price_str) ==
    IF price_str.json = "null" THEN None
    ELSE IF price_str.json = "number"
    THEN (IF price_str.number = Zero THEN None ELSE Some(price_str.number))
    ELSE IF price_str.text = "" THEN None
    ELSE LET price_clean == strip(Remove(Remove(price_str.text, "$"), ","))
         IN  IF price_clean = "" THEN None ELSE float(price_clean)

_try_upcitemdb(upcitemdb_key, upc, response) ==
    IF ~upcitemdb_key THEN None
    ELSE IF response.raises THEN None
    ELSE IF response.status_code = 200 /\ response.items # <<>>
    THEN LET item == response.items[1]
         IN  Some([title |-> item.title, brand |-> item.brand, model |-> item.model,
                   upc |-> upc, msrp |-> _parse_price(item.msrp),
                   source |-> "upcitemdb"])
    ELSE None

_try_barcodelookup(barcodelookup_key, upc, response) ==
    IF ~barcodelookup_key THEN None
    ELSE IF response.raises THEN None
    ELSE IF response.status_code = 200 /\ response.items # <<>>
    THEN LET product == response.items[1]
         IN  Some([title |-> product.title, brand |-> product.brand,
                   model |-> product.model, upc |-> upc,
                   msrp |-> _parse_price(product.msrp), source |-> "barcodelookup"])
    ELSE None

_try_openfoodfacts(upc, response) ==
    IF response.raises THEN None
    ELSE IF response.status_code = 200 /\ response.items # <<>>
    THEN LET product == response.items[1]
         IN  Some([title |-> product.title, brand |-> product.brand, model |-> "",
                   upc |-> upc, msrp |-> None, source |-> "openfoodfacts"])
    ELSE None

\* the providers in the order UPCLookup.lookup tries them
ProviderOrder == <<"upcitemdb", "barcodelookup", "openfoodfacts">>

\* whether _try_<provider> makes its HTTP request: the first two return None
\* at once when their API key is not configured
Requests(self, provider) ==
    \/ provider = "openfoodfacts"
    \/ provider = "upcitemdb" /\ self.upcitemdb_key
    \/ provider = "barcodelookup" /\ self.barcodelookup_key

_try(self, provider, upc, response) ==
    IF provider = "upcitemdb" THEN _try_upcitemdb(self.upcitemdb_key, upc, response)
    ELSE IF provider = "barcodelookup"
    THEN _try_barcodelookup(self.barcodelookup_key, upc, response)
    ELSE _try_openfoodfacts(upc, response)

\* a lookup that is past its test of the session cache: the digits of the
\* code, the place in ProviderOrder of the provider it tries next, the
\* requests it has made and the answers of the providers it has tried
NoChain == [provider |-> 0, code |-> "", requests |-> <<>>, answers |-> <<>>]

\* UPCLookup.lookup(upc) up to its test of the session cache: it returns
\* None for a code without digits and the entry of the session cache when
\* there is one under the digits, and goes on to the providers otherwise
lookup_cached(self, upc) ==
    LET code == OnlyDigits(upc)
    IN  IF upc = "" \/ strip(upc) = "" \/ code = ""
        THEN [returns |-> TRUE, cached |-> FALSE, result |-> None, cache |-> self.cache,
              chain |-> NoChain]
        ELSE IF code \in DOMAIN self.cache
        THEN [returns |-> TRUE, cached |-> TRUE, result |-> self.cache[code],
              cache |-> self.cache, chain |-> NoChain]
        ELSE [returns |-> FALSE, cached |-> FALSE, result |-> None, cache |-> self.cache,
              chain |-> [NoChain EXCEPT !.provider = 1, !.code = code]]

lookup_try_raise_ends(self, chain, response) ==
    LET provider == ProviderOrder[chain.provider]
        result == _try(self, provider, chain.code, response)
        tried == [chain EXCEPT
                     !.requests = IF Requests(self, provider) THEN @ \o <<provider>> ELSE @,
                     !.answers = @ \o <<response>>]
    IN  IF result # None
        THEN [returns |-> TRUE, cached |-> FALSE, result |-> result,
              cache |-> [c \in DOMAIN self.cache \cup {chain.code} |->
                            IF c = chain.code THEN result ELSE self.cache[c]],
              chain |-> tried]
        ELSE IF chain.provider = Len(ProviderOrder) \/ response.raises
        THEN [returns |-> TRUE, cached |-> FALSE, result |-> None, cache |-> self.cache,
              chain |-> tried]
        ELSE [returns |-> FALSE, cached |-> FALSE, result |-> None, cache |-> self.cache,
              chain |-> [tried EXCEPT !.provider = @ + 1]]

\* UPCLookup.lookup past the session cache, at one provider of the chain:
\* it tries the provider; a result it stores in the session cache under the
\* digits, whatever is there by now, and returns; without a result it goes
\* on to the next provider, and returns None after the last
lookup_try(self, chain, response) ==
    LET provider == ProviderOrder[chain.provider]
        result == _try(self, provider, chain.code, response)
        tried == [chain EXCEPT
                     !.requests = IF Requests(self, provider) THEN @ \o <<provider>> ELSE @,
                     !.answers = @ \o <<response>>]
    IN  IF result # None
        THEN [returns |-> TRUE, cached |-> FALSE, result |-> result,
              cache |-> [c \in DOMAIN self.cache \cup {chain.code} |->
                            IF c = chain.code THEN result ELSE self.cache[c]],
              chain |-> tried]
        ELSE IF chain.provider = Len(ProviderOrder)
        THEN [returns |-> TRUE, cached |-> FALSE, result |-> None, cache |-> self.cache,
              chain |-> tried]
        ELSE [returns |-> FALSE, cached |-> FALSE, result |-> None, cache |-> self.cache,
              chain |-> [tried EXCEPT !.provider = @ + 1]]

(***************************************************************************)
(* market_research.py, _parse_results_with_ai: the sold listings built     *)
(* from the text the model answered.  time is datetime.now(), which the    *)
(* function reads for the cutoff and again for each listing without a date *)
(* that parses: one value stands for these readings of one call.           *)
(***************************************************************************)
sold_items_lookback_days == 30

\* dt - timedelta(days=days)
DaysBefore(dt, days) ==
    LET date == ord_to_ymd(ymd_to_ord(dt.year, dt.month, dt.day) - days)
    IN  [dt EXCEPT !.year = date[1], !.month = date[2], !.day = date[3]]

\* a < b of two datetimes without tzinfo
NaiveBefore(a, b) ==
    LET fields(dt) == <<dt.year, dt.month, dt.day, dt.hour, dt.minute, dt.second,
                        dt.microsecond>>
    IN  \E i \in 1..7 :
            /\ fields(a)[i] < fields(b)[i]
            /\ \A j \in 1..(i - 1) : fields(a)[j] = fields(b)[j]

\* float(x) of a value of the answer: Some(number), or None where it raises
FloatOf(obj) ==
    IF obj.t = "float" THEN Some(obj.v)
    ELSE IF obj.t = "int" THEN Some(Rat(obj.v, 1))
    ELSE IF obj.t = "bool" THEN Some(Rat(IF obj.v THEN 1 ELSE 0, 1))
    ELSE IF obj.t = "str" THEN float(obj.v)
    ELSE None

\* the sold date of an item: the one its text spells once every 'Z' is
\* taken out, and the time of the call where fromisoformat raises on that
\* text or the value is no text
SoldDate(date_str, time) ==
    IF date_str.t # "str" THEN time
    ELSE IF fromisoformat(Remove(date_str.v, "Z")) = None THEN time
    ELSE fromisoformat(Remove(date_str.v, "Z"))[1]

\* the listing of an item with the price and the date read from it, None
\* where the item is skipped: float raised, the price is not above 0, the
\* date has an offset and its comparison with the cutoff raises, or the
\* date is before the cutoff
Listed(listing_data, brand, model, condition, cutoff_date, price, sold_date) ==
    IF price = None THEN None
    ELSE IF RLe(price[1], Zero) THEN None
    ELSE IF sold_date.tzinfo # None THEN None
    ELSE IF NaiveBefore(sold_date, cutoff_date) THEN None
    ELSE Some(SoldListing(FromPy(get(listing_data, "title", PyStr(brand \o " " \o model))),
                          price[1],
                          sold_date,
                          FromPy(get(listing_data, "condition", PyStr(condition))),
                          "tavily_ai",
                          IF get(listing_data, "url", PyNone).t = "null" THEN None
                          ELSE Some(FromPy(get(listing_data, "url", PyNone)))))

\* the listing built from one item of the answer's list; an item that is
\* no dict is skipped
ListingFrom(listing_data, brand, model, condition, cutoff_date, time) ==
    IF listing_data.t # "dict" THEN None
    ELSE Listed(listing_data, brand, model, condition, cutoff_date,
                FloatOf(get(listing_data, "price", PyInt(0))),
                SoldDate(get(listing_data, "sold_date", PyStr("")), time))

\* the listings of the items, in their order, without the items skipped
RECURSIVE ListingsFrom(_, _, _, _, _, _)
ListingsFrom(listings_data, brand, model, condition, cutoff_date, time) ==
    IF Len(listings_data) = 0 THEN <<>>
    ELSE ListingFrom(listings_data[1], brand, model, condition, cutoff_date, time)
         \o ListingsFrom(Tail(listings_data), brand, model, condition, cutoff_date, time)

\* the listings of the answer read; none where json.loads raised, the
\* answer is no dict, or its 'listings' is no list: the loop then raises or
\* skips every item
ListingsOfAnswer(result_data, brand, model, condition, cutoff_date, time) ==
    IF result_data = None THEN <<>>
    ELSE IF result_data[1].t # "dict" THEN <<>>
    ELSE IF get(result_data[1], "listings", PyList(<<>>)).t # "list" THEN <<>>
    ELSE ListingsFrom(get(result_data[1], "listings", PyList(<<>>)).v, brand, model,
                      condition, cutoff_date, time)

\* _parse_results_with_ai, from result_text on, called at the time given
_parse_results_with_ai(result_text, brand, model, condition, lookback_days, time) ==
    ListingsOfAnswer(json_loads(result_text), brand, model, condition,
                     DaysBefore(time, lookback_days), time)

(***************************************************************************)
(* Inputs explored.                                                        *)
(***************************************************************************)
BoundedSeq(S, n) == UNION {[1..k -> S] : k \in 0..n}

Dollars(S) == {Rat(p, 1) : p \in S}

RetailPrices == {None, Some(Rat(599, 1))}

\* outcomes of the sold-comp research
Research(listings) == [raises |-> FALSE, listings |-> listings]

ResearchRaises == [raises |-> TRUE, listings |-> <<>>]

\* datetime.now() at the time of a search
SearchTime == datetime(2025, 1, 15, 10, 30, 45, 123456, None)

\* a sold date the model's answer gave, "2025-01-01", within the lookback
\* of the search
DateGiven == datetime(2025, 1, 1, 0, 0, 0, 0, None)

ListingUrl == "https://www.ebay.com/itm/135790"

\* a listing as _parse_results_with_ai builds it from the model's answer:
\* the date it gave, or the time of the search where it gave none that
\* parses, and the url it gave, if any
AiListing(price, sold_date, url) ==
    SoldListing("Apple iPad Air 4th Gen 64GB", price, sold_date, "Used", "tavily_ai", url)

\* one listing of an answer in the format the prompt asks for, with the
\* sold date and the url where the model gave them
AnswerListing(price, sold_date, url) ==
    PyDict(<<<<"title", PyStr("Apple iPad Air 4th Gen 64GB")>>, <<"price", PyFloat(price)>>>>
           \o (IF sold_date = None THEN <<>> ELSE <<<<"sold_date", PyStr(sold_date[1])>>>>)
           \o <<<<"condition", PyStr("Used")>>>>
           \o (IF url = None THEN <<>> ELSE <<<<"url", PyStr(url[1])>>>>))

\* the text of the answer with the listings
AnswerText(listings) == json_dumps(PyDict(<<<<"listings", PyList(listings)>>>>))

\* what a search at SearchTime makes of an answer with three listings of
\* the last 30 days, one of them without a date, and one sold before that,
\* on "2024-12-01"
SoldSince(first, undated, old, third) ==
    _parse_results_with_ai(
        AnswerText(<<AnswerListing(first, Some("2025-01-01"), None),
                     AnswerListing(undated, None, Some(ListingUrl)),
                     AnswerListing(old, Some("2024-12-01"), Some(ListingUrl)),
                     AnswerListing(third, Some("2025-01-01"), Some(ListingUrl))>>),
        "Apple", "iPad Air", "USED_GOOD", sold_items_lookback_days, SearchTime)

\* a listing as _parse_results_basic builds it from a search result: the
\* time of the search, the condition asked for and the url of the result
BasicListing(price, condition) ==
    SoldListing("Sony WH-1000XM4 sold for $" \o ZeroPadded(price.num, 1), price, SearchTime,
                condition, "tavily_basic", Some(ListingUrl))

\* outcomes of the Browse API search
ApiResult(values, total) == [raises |-> FALSE, itemSummaries |-> values, total |-> total]

ApiRaises == [raises |-> TRUE, itemSummaries |-> <<>>, total |-> 0]

ResearchOutcomes ==
    {ResearchRaises, Research(<<>>),
     Research(SoldSince(Rat(200, 1), Rat(200, 1), Rat(150, 1), Rat(200, 1)))}

ApiOutcomes ==
    {ApiRaises, ApiResult(<<>>, 0), ApiResult(<<NoPriceValue>>, 2),
     ApiResult(<<PriceText(Rat(300, 1)), PriceText(Rat(400, 1))>>, 2)}

(***************************************************************************)
(* The engine: the clock and get_pricing_recommendation.                   *)
(***************************************************************************)
NoPricing ==
    PricingRecommendation(Zero, None, None, None, Zero,
        [tier |-> "none", base_price |-> None, condition_penalty |-> None],
        MarketData("", "", ""))

NoCall ==
    [called |-> FALSE, id |-> 0, brand |-> "", model |-> "", condition |-> "",
     retail_price |-> None, upc |-> None, upc_data |-> None, at |-> 0, hit |-> FALSE,
     calls |-> <<>>, row |-> None, alone |-> TRUE, pricing |-> NoPricing]

Idle == [busy |-> FALSE]

\* the callers of the engine and of the cache manager: each runs its
\* statements in order, and between two statements of one caller the other
\* may run statements of its own
Callers == {1, 2}

\* a caller that is not inside a call.  Of a caller inside one: pc is the
\* place it has reached, "selected" after the SELECT of a cache read,
\* "fetching" while the engine waits for the market sources, "counted"
\* after the first SELECT COUNT of get_cache_stats, "looking" while a lookup
\* of the UPC resolver is at its providers, "looked_up" when the resolver
\* has answered the engine; row is the row its SELECT returned, total the
\* first count, at the hour the wait for the sources began, alone whether
\* no other call of the engine has been in progress during this one, chain
\* how far its lookup has come, calls the number of calls the caller has
\* made
Returned ==
    [pc |-> "idle", name |-> "none",
     args |-> [brand |-> "", model |-> "", condition |-> "", retail_price |-> None,
               upc |-> None, upc_data |-> None],
     row |-> None, total |-> 0, at |-> 0, alone |-> TRUE, chain |-> NoChain, calls |-> 0]

\* the callers once caller c has run a statement of the engine: the calls
\* of the others that are in progress have not run alone
Overlap(c) ==
    [d \in Callers |->
        IF d # c /\ callers[d].pc # "idle"
        THEN [callers[d] EXCEPT !.alone = FALSE] ELSE callers[d]]

Init ==
    /\ now = 0
    /\ sweep = Idle
    /\ callers = [c \in Callers |-> Returned]
    /\ condition_mapper = Idle
    /\ resolver = Idle
    /\ price_filter = Idle
    /\ op = Idle
    /\ fetch = Idle
    /\ cache = {}
    /\ last = NoCall
    /\ best_offer_enabled = TRUE
    /\ calc = Idle
    /\ stats = Idle

Tick ==
    /\ now + TickHours <= MaxTime
    /\ now' = now + TickHours
    /\ UNCHANGED <<cache, last, best_offer_enabled, calc, stats, fetch, op, price_filter, resolver, condition_mapper, callers, sweep>>

\* what the product data of the UPC resolver changes in the request: the
\* product name searched for, the retail price and the brand; upc_data is
\* None when no upc was given or the resolver found nothing
upc_product_name(model, upc_data) ==
    IF upc_data # None /\ upc_data[1].title # "" THEN upc_data[1].title ELSE model

upc_retail_price(retail_price, upc_data) ==
    IF /\ upc_data # None
       /\ (retail_price = None \/ retail_price[1].num = 0)
       /\ upc_data[1].msrp # None /\ upc_data[1].msrp[1].num # 0
    THEN upc_data[1].msrp
    ELSE retail_price

upc_brand(brand, upc_data) ==
    IF upc_data # None /\ upc_data[1].brand # "" THEN upc_data[1].brand ELSE brand

\* the resolver once a lookup of upc has returned: its session cache, the
\* lookup as the last one that returned, with the answers of the providers
\* at that time, asked or not, and the results lookups have returned
Resolved(upc, responses, out) ==
    [resolver EXCEPT
        !.cache = out.cache,
        !.last = [id |-> 1 - resolver.last.id, upc |-> upc,
                  responses |-> Some(responses), cached |-> out.cached,
                  result |-> out.result, requests |-> out.chain.requests],
        !.returned = IF out.result = None THEN @
                     ELSE @ \cup {[code |-> OnlyDigits(upc), result |-> out.result]}]

get_pricing_recommendation_refetch(c, brand, model, condition, retail_price, upc, responses, research, api) ==
    LET me == callers[c]
        normalized_condition ==
            upper(IF lower(condition) \in DOMAIN CONDITION_MAPPINGS
                  THEN CONDITION_MAPPINGS[lower(condition)] ELSE condition)
        request(upc_data) ==
            [brand |-> brand, model |-> model, condition |-> condition,
             retail_price |-> retail_price, upc |-> upc, upc_data |-> upc_data]
        cache_key(upc_data) ==
            _generate_cache_key(upc_brand(brand, upc_data),
                                upc_product_name(model, upc_data), normalized_condition)
        \* the call returns the recommendation priced on market_data
        return(market_data, hit) ==
            /\ last' = [called |-> TRUE, id |-> 1 - last.id, brand |-> brand,
                        model |-> model, condition |-> condition,
                        retail_price |-> retail_price, upc |-> upc,
                        upc_data |-> me.args.upc_data, at |-> now, hit |-> hit,
                        calls |-> IF hit THEN <<>>
                                  ELSE <<"research_sold_comps_ai",
                                         "analyze_active_competition">>,
                        row |-> me.row, alone |-> me.alone,
                        pricing |-> calculate_pricing_from_market_data(
                                        market_data, normalized_condition,
                                        upc_retail_price(retail_price, me.args.upc_data))]
            /\ callers' = [Overlap(c) EXCEPT ![c] = [Returned EXCEPT !.calls = me.calls + 1]]
        \* the call begins and comes to place pc
        begin(pc, upc_data, row, chain) ==
            callers' =
                [Overlap(c) EXCEPT ![c] =
                    [pc |-> pc, name |-> "get_pricing_recommendation",
                     args |-> request(upc_data), row |-> row, total |-> 0, at |-> now,
                     alone |-> \A d \in Callers \ {c} : callers[d].pc = "idle",
                     chain |-> chain, calls |-> me.calls]]
        \* the SELECT of the cache read: without a row the call goes on to
        \* the sources
        selected(row) == IF row = None THEN "fetching" ELSE "selected"
    IN  /\ \/ /\ me.pc = "idle"
              /\ me.calls < MaxCalls
              /\ IF upc = None \/ upc[1] = ""
                 \* without a code: the call up to the SELECT of its cache read
                 THEN LET row == select_entry(cache, cache_key(None))
                      IN  /\ begin(selected(row), None, row, NoChain)
                          /\ resolver' = resolver
                 \* with a code: lookup_product up to the test of the
                 \* resolver's session cache
                 ELSE LET out == lookup_cached(resolver, upc[1])
                      IN  IF out.returns
                          THEN /\ begin("looked_up", out.result, None, NoChain)
                               /\ resolver' = Resolved(upc[1], responses, out)
                          ELSE /\ begin("looking", None, None, out.chain)
                               /\ resolver' = resolver
              /\ UNCHANGED <<cache, last>>
           \* lookup_product at one provider of the chain
           \/ /\ me.pc = "looking"
              /\ me.name = "get_pricing_recommendation"
              /\ me.args = request(None)
              /\ \A i \in 1..Len(me.chain.answers) :
                    responses[ProviderOrder[i]] = me.chain.answers[i]
              /\ LET out == lookup_try(resolver, me.chain,
                                       responses[ProviderOrder[me.chain.provider]])
                 IN  IF out.returns
                     THEN /\ callers' = [Overlap(c) EXCEPT ![c].pc = "looked_up",
                                                           ![c].args.upc_data = out.result,
                                                           ![c].chain = NoChain]
                          /\ resolver' = Resolved(upc[1], responses, out)
                     ELSE /\ callers' = [Overlap(c) EXCEPT ![c].chain = out.chain]
                          /\ resolver' = resolver
              /\ UNCHANGED <<cache, last>>
           \* the resolver has answered: the SELECT of the cache read, under
           \* the key of what the resolver found
           \/ /\ me.pc = "looked_up"
              /\ me.args = request(me.args.upc_data)
              /\ LET row == select_entry(cache, cache_key(me.args.upc_data))
                 IN  callers' = [Overlap(c) EXCEPT ![c].pc = selected(row),
                                                   ![c].row = row,
                                                   ![c].at = now]
              /\ UNCHANGED <<cache, last, resolver>>
           \* the cache read after its connection is closed
           \/ /\ me.pc = "selected"
              /\ me.name = "get_pricing_recommendation"
              /\ me.args = request(me.args.upc_data)
              /\ LET read == read_entry(cache, cache_key(me.args.upc_data), me.row[1])
                 IN  IF TRUE
                     THEN /\ cache' = read.store
                          /\ callers' = [Overlap(c) EXCEPT ![c].pc = "fetching",
                                                           ![c].at = now]
                          /\ last' = last
                     ELSE /\ cache' = cache
                          /\ return(read.market_data[1], TRUE)
              /\ resolver' = resolver
           \* the sources have answered: fetch_market_data built its record
           \* when the wait began
           \/ /\ me.pc = "fetching"
              /\ me.args = request(me.args.upc_data)
              /\ LET fetched ==
                         [fetch_market_data(upc_brand(brand, me.args.upc_data),
                                            upc_product_name(model, me.args.upc_data),
                                            normalized_condition, research, api)
                             EXCEPT !.created_at = me.at]
                 IN  /\ cache' =
                           IF fetched.sold_count > 0 \/ fetched.active_listing_count > 0
                           THEN cache_market_data(cache, fetched)
                           ELSE cache
                     /\ return(fetched, FALSE)
              /\ resolver' = resolver
        /\ UNCHANGED <<now, best_offer_enabled, calc, stats, fetch, op, price_filter, condition_mapper, sweep>>

\* get_pricing_recommendation(brand, model, condition, retail_price, upc) by
\* caller c, one step of it: with a code, lookup_product up to the test of
\* the resolver's session cache, then at one provider after the other; the
\* SELECT of the cache read; the rest of the cache read; or the answer of
\* the sources with the cache write and the pricing.  Without a code the
\* call begins with the SELECT.  upc is None when the caller gave none;
\* responses are the answers the providers give to the resolver, research
\* and api the outcomes of the two market sources; calls are the market
\* sources the call asked
get_pricing_recommendation(c, brand, model, condition, retail_price, upc, responses, research, api) ==
    LET me == callers[c]
        normalized_condition ==
            upper(IF lower(condition) \in DOMAIN CONDITION_MAPPINGS
                  THEN CONDITION_MAPPINGS[lower(condition)] ELSE condition)
        request(upc_data) ==
            [brand |-> brand, model |-> model, condition |-> condition,
             retail_price |-> retail_price, upc |-> upc, upc_data |-> upc_data]
        cache_key(upc_data) ==
            _generate_cache_key(upc_brand(brand, upc_data),
                                upc_product_name(model, upc_data), normalized_condition)
        \* the call returns the recommendation priced on market_data
        return(market_data, hit) ==
            /\ last' = [called |-> TRUE, id |-> 1 - last.id, brand |-> brand,
                        model |-> model, condition |-> condition,
                        retail_price |-> retail_price, upc |-> upc,
                        upc_data |-> me.args.upc_data, at |-> now, hit |-> hit,
                        calls |-> IF hit THEN <<>>
                                  ELSE <<"research_sold_comps_ai",
                                         "analyze_active_competition">>,
                        row |-> me.row, alone |-> me.alone,
                        pricing |-> calculate_pricing_from_market_data(
                                        market_data, normalized_condition,
                                        upc_retail_price(retail_price, me.args.upc_data))]
            /\ callers' = [Overlap(c) EXCEPT ![c] = [Returned EXCEPT !.calls = me.calls + 1]]
        \* the call begins and comes to place pc
        begin(pc, upc_data, row, chain) ==
            callers' =
                [Overlap(c) EXCEPT ![c] =
                    [pc |-> pc, name |-> "get_pricing_recommendation",
                     args |-> request(upc_data), row |-> row, total |-> 0, at |-> now,
                     alone |-> \A d \in Callers \ {c} : callers[d].pc = "idle",
                     chain |-> chain, calls |-> me.calls]]
        \* the SELECT of the cache read: without a row the call goes on to
        \* the sources
        selected(row) == IF row = None THEN "fetching" ELSE "selected"
    IN  /\ \/ /\ me.pc = "idle"
              /\ me.calls < MaxCalls
              /\ IF upc = None \/ upc[1] = ""
                 \* without a code: the call up to the SELECT of its cache read
                 THEN LET row == select_entry(cache, cache_key(None))
                      IN  /\ begin(selected(row), None, row, NoChain)
                          /\ resolver' = resolver
                 \* with a code: lookup_product up to the test of the
                 \* resolver's session cache
                 ELSE LET out == lookup_cached(resolver, upc[1])
                      IN  IF out.returns
                          THEN /\ begin("looked_up", out.result, None, NoChain)
                               /\ resolver' = Resolved(upc[1], responses, out)
                          ELSE /\ begin("looking", None, None, out.chain)
                               /\ resolver' = resolver
              /\ UNCHANGED <<cache, last>>
           \* lookup_product at one provider of the chain
           \/ /\ me.pc = "looking"
              /\ me.name = "get_pricing_recommendation"
              /\ me.args = request(None)
              /\ \A i \in 1..Len(me.chain.answers) :
                    responses[ProviderOrder[i]] = me.chain.answers[i]
              /\ LET out == lookup_try(resolver, me.chain,
                                       responses[ProviderOrder[me.chain.provider]])
                 IN  IF out.returns
                     THEN /\ callers' = [Overlap(c) EXCEPT ![c].pc = "looked_up",
                                                           ![c].args.upc_data = out.result,
                                                           ![c].chain = NoChain]
                          /\ resolver' = Resolved(upc[1], responses, out)
                     ELSE /\ callers' = [Overlap(c) EXCEPT ![c].chain = out.chain]
                          /\ resolver' = resolver
              /\ UNCHANGED <<cache, last>>
           \* the resolver has answered: the SELECT of the cache read, under
           \* the key of what the resolver found
           \/ /\ me.pc = "looked_up"
              /\ me.args = request(me.args.upc_data)
              /\ LET row == select_entry(cache, cache_key(me.args.upc_data))
                 IN  callers' = [Overlap(c) EXCEPT ![c].pc = selected(row),
                                                   ![c].row = row,
                                                   ![c].at = now]
              /\ UNCHANGED <<cache, last, resolver>>
           \* the cache read after its connection is closed
           \/ /\ me.pc = "selected"
              /\ me.name = "get_pricing_recommendation"
              /\ me.args = request(me.args.upc_data)
              /\ LET read == read_entry(cache, cache_key(me.args.upc_data), me.row[1])
                 IN  IF read.market_data = None
                     THEN /\ cache' = read.store
                          /\ callers' = [Overlap(c) EXCEPT ![c].pc = "fetching",
                                                           ![c].at = now]
                          /\ last' = last
                     ELSE /\ cache' = cache
                          /\ return(read.market_data[1], TRUE)
              /\ resolver' = resolver
           \* the sources have answered: fetch_market_data built its record
           \* when the wait began
           \/ /\ me.pc = "fetching"
              /\ me.args = request(me.args.upc_data)
              /\ LET fetched ==
                         [fetch_market_data(upc_brand(brand, me.args.upc_data),
                                            upc_product_name(model, me.args.upc_data),
                                            normalized_condition, research, api)
                             EXCEPT !.created_at = me.at]
                 IN  /\ cache' =
                           IF fetched.sold_count > 0 \/ fetched.active_listing_count > 0
                           THEN cache_market_data(cache, fetched)
                           ELSE cache
                     /\ return(fetched, FALSE)
              /\ resolver' = resolver
        /\ UNCHANGED <<now, best_offer_enabled, calc, stats, fetch, op, price_filter, condition_mapper, sweep>>

GetPricingRecommendation ==
    \E c \in Callers, retail_price \in RetailPrices :
    \E research \in IF callers[c].pc = "fetching" THEN ResearchOutcomes ELSE {ResearchRaises},
       api \in IF callers[c].pc = "fetching" THEN ApiOutcomes ELSE {ApiRaises} :
        get_pricing_recommendation(c, "Apple", "iPad Air", "good", retail_price, None,
                                   None, research, api)

Spec == Init /\ [][Tick \/ GetPricingRecommendation]_vars

(***************************************************************************)
(* The pricing calculator on its own: calculate_pricing_from_market_data   *)
(* applied to every record the aggregator builds from bounded source       *)
(* outcomes, for every condition and retail price below, with best offer   *)
(* enabled and disabled.                                                   *)
(***************************************************************************)
CalcConditions ==
    {"LIKE_NEW", "USED_EXCELLENT", "USED_VERY_GOOD", "USED_GOOD", "USED_ACCEPTABLE",
     "FOR_PARTS_OR_NOT_WORKING", "NEW"}

CalcRetailPrices == {None, Some(Zero), Some(Rat(-5, 1)), Some(Rat(599, 1))}

CalcResearchOutcomes ==
    {ResearchRaises} \cup
    {Research(l) :
        l \in BoundedSeq({AiListing(p, DateGiven, None) : p \in Dollars({100, 200})}, MaxSold)}

CalcApiOutcomes ==
    {ApiRaises} \cup
    {ApiResult(v, Len(v)) :
        v \in BoundedSeq({NoPriceValue, NullPrice, PriceNumber(Zero),
                          PriceText(Rat(300, 1))}, MaxItems)}

InitCalc ==
    /\ now = 0
    /\ sweep = Idle
    /\ callers = Idle
    /\ condition_mapper = Idle
    /\ resolver = Idle
    /\ price_filter = Idle
    /\ op = Idle
    /\ fetch = Idle
    /\ cache = {}
    /\ last = NoCall
    /\ best_offer_enabled \in BOOLEAN
    /\ stats = Idle
    /\ \E condition \in CalcConditions, retail_price \in CalcRetailPrices,
          research \in CalcResearchOutcomes, api \in CalcApiOutcomes :
           calc = [busy |-> TRUE,
                   market_data |-> fetch_market_data("Apple", "iPad Air", condition,
                                                     research, api),
                   condition |-> condition,
                   retail_price |-> retail_price,
                   pricing |-> None]

CalculatePricing ==
    /\ calc.busy
    /\ calc.pricing = None
    /\ calc' = [calc EXCEPT !.pricing =
                   Some(calculate_pricing_from_market_data(calc.market_data, calc.condition,
                                                           calc.retail_price))]
    /\ UNCHANGED <<now, cache, last, best_offer_enabled, stats, fetch, op, price_filter, resolver, condition_mapper, callers, sweep>>

SpecCalc == InitCalc /\ [][CalculatePricing]_vars

(***************************************************************************)
(* The sold statistics on their own: remove_outliers and                   *)
(* calculate_sold_stats applied to every bounded list of the prices below. *)
(***************************************************************************)
StatPrices == Dollars({98, 100, 101, 102, 5000})

Thresholds == {None, Some(Rat(1, 2)), Some(Zero), Some(Rat(1, 1))}

\* lists long enough for one price to lie beyond 2.5 standard deviations:
\* RunLen prices around 100 with a single 1000 among them
OutlierRuns ==
    {[i \in 1..RunLen |-> IF i = k THEN Rat(1000, 1)
                          ELSE IF i % 2 = 1 THEN Rat(98, 1) ELSE Rat(102, 1)] :
        k \in 1..RunLen}

\* prices in cents whose mean is one of them as a number and not as a
\* float: the rounding of the floats decides whether that price is kept
CentRuns == {<<Rat(3, 10), Rat(7, 10), Rat(11, 10), Rat(23, 10)>>,
             <<Rat(101, 10), Rat(51, 5), Rat(103, 10)>>}

InitStats ==
    /\ now = 0
    /\ sweep = Idle
    /\ callers = Idle
    /\ condition_mapper = Idle
    /\ resolver = Idle
    /\ price_filter = Idle
    /\ op = Idle
    /\ fetch = Idle
    /\ cache = {}
    /\ last = NoCall
    /\ best_offer_enabled = TRUE
    /\ calc = Idle
    /\ \E prices \in BoundedSeq(StatPrices, MaxPrices) \cup OutlierRuns \cup CentRuns :
           stats = [busy |-> TRUE, prices |-> prices, op |-> "none",
                    threshold |-> None, filtered |-> <<>>,
                    sold_stats |-> calculate_sold_stats(<<>>)]

RemoveOutliers ==
    /\ stats.busy
    /\ stats.op = "none"
    /\ \E threshold \in Thresholds :
           stats' = [stats EXCEPT !.op = "remove_outliers",
                                  !.threshold = threshold,
                                  !.filtered = remove_outliers(stats.prices, threshold)]
    /\ UNCHANGED <<now, cache, last, best_offer_enabled, calc, fetch, op, price_filter, resolver, condition_mapper, callers, sweep>>

CalculateSoldStats ==
    /\ stats.busy
    /\ stats.op = "none"
    /\ stats' = [stats EXCEPT !.op = "calculate_sold_stats",
                    !.sold_stats = calculate_sold_stats(
                        [i \in 1..Len(stats.prices) |->
                            AiListing(stats.prices[i], DateGiven, None)])]
    /\ UNCHANGED <<now, cache, last, best_offer_enabled, calc, fetch, op, price_filter, resolver, condition_mapper, callers, sweep>>

SpecStats == InitStats /\ [][RemoveOutliers \/ CalculateSoldStats]_vars

(***************************************************************************)
(* The aggregator on its own: fetch_market_data applied to every outcome   *)
(* of the two sources.                                                     *)
(***************************************************************************)
InitFetch ==
    /\ now = 0
    /\ sweep = Idle
    /\ callers = Idle
    /\ condition_mapper = Idle
    /\ resolver = Idle
    /\ price_filter = Idle
    /\ op = Idle
    /\ cache = {}
    /\ last = NoCall
    /\ best_offer_enabled = TRUE
    /\ calc = Idle
    /\ stats = Idle
    /\ \E research \in CalcResearchOutcomes, api \in CalcApiOutcomes :
           fetch = [busy |-> TRUE, research |-> research, api |-> api,
                    market_data |-> None]

FetchMarketData ==
    /\ fetch.busy
    /\ fetch.market_data = None
    /\ fetch' = [fetch EXCEPT !.market_data =
                    Some(fetch_market_data("Apple", "iPad Air", "USED_GOOD",
                                           fetch.research, fetch.api))]
    /\ UNCHANGED <<now, cache, last, best_offer_enabled, calc, stats, op, price_filter, resolver, condition_mapper, callers, sweep>>

SpecFetch == InitFetch /\ [][FetchMarketData]_vars

(***************************************************************************)
(* The cache manager on its own: its public operations, the clock, and the *)
(* damage of a stored text by something other than the manager.  op is the *)
(* last operation that returned: its name, arguments and result, and the   *)
(* row its SELECT returned.                                                *)
(***************************************************************************)
\* brand, model, condition of the reads
Identities ==
    {<<"Apple", "iPad Air", "USED_GOOD">>,
     <<"Sony", "WH-1000XM4", "NEW">>}

SoldComps == Research(SoldSince(Rat(200, 1), Rat(200, 1), Rat(150, 1), Rat(230, 1)))

\* the same prices found without the model, for the condition asked for
BasicComps(condition) ==
    Research(<<BasicListing(Rat(200, 1), condition), BasicListing(Rat(200, 1), condition),
               BasicListing(Rat(230, 1), condition)>>)

ActiveListings == ApiResult(<<PriceText(Rat(300, 1)), PriceText(Rat(400, 1))>>, 2)

\* the records that are put: an identity and what the sources returned
\* for it; the first is read under another spelling of its key
CachePuts ==
    {[identity |-> <<"apple", " ipad  air", "used_good ">>,
      research |-> SoldComps, api |-> ActiveListings],
     [identity |-> <<"Sony", "WH-1000XM4", "NEW">>,
      research |-> BasicComps("NEW"), api |-> ApiRaises]}

MaxAges == {None, Some(0), Some(TickHours)}

NoOp == [id |-> 0, name |-> "none", args |-> None, result |-> None, row |-> None]

InitCache ==
    /\ now = 0
    /\ sweep = Idle
    /\ callers = [c \in Callers |-> Returned]
    /\ condition_mapper = Idle
    /\ resolver = Idle
    /\ price_filter = Idle
    /\ cache = {}
    /\ last = NoCall
    /\ best_offer_enabled = TRUE
    /\ calc = Idle
    /\ stats = Idle
    /\ fetch = Idle
    /\ op = NoOp

CacheMarketData ==
    \E put \in CachePuts :
        LET market_data == fetch_market_data(put.identity[1], put.identity[2],
                                             put.identity[3], put.research, put.api)
        IN  /\ cache' = cache_market_data(cache, market_data)
            /\ op' = [id |-> 1 - op.id, name |-> "cache_market_data",
                      args |-> market_data, result |-> None, row |-> None]
            /\ UNCHANGED <<now, last, best_offer_enabled, calc, stats, fetch, price_filter, resolver, condition_mapper, callers, sweep>>

\* get_cached_market_data(brand, model, condition) by caller c, one step of
\* it: the SELECT on its connection, which ends the call when there is no
\* row, or the rest of the call on the row selected
get_cached(c, identity) ==
    LET me == callers[c]
        cache_key == _generate_cache_key(identity[1], identity[2], identity[3])
        returned(row, market_data) ==
            /\ op' = [id |-> 1 - op.id, name |-> "get_cached_market_data",
                      args |-> identity, result |-> market_data, row |-> row]
            /\ callers' = [callers EXCEPT ![c] = [Returned EXCEPT !.calls = me.calls + 1]]
    IN  /\ \/ /\ me.pc = "idle"
              /\ me.calls < MaxCalls
              /\ cache' = cache
              /\ LET row == select_entry(cache, cache_key)
                 IN  IF row = None
                     THEN returned(None, None)
                     ELSE /\ op' = op
                          /\ callers' = [callers EXCEPT ![c] =
                                 [Returned EXCEPT
                                     !.pc = "selected",
                                     !.name = "get_cached_market_data",
                                     !.args.brand = identity[1],
                                     !.args.model = identity[2],
                                     !.args.condition = identity[3],
                                     !.row = row,
                                     !.calls = me.calls]]
           \/ /\ me.pc = "selected"
              /\ me.name = "get_cached_market_data"
              /\ identity = <<me.args.brand, me.args.model, me.args.condition>>
              /\ LET read == read_entry(cache, cache_key, me.row[1])
                 IN  /\ cache' = read.store
                     /\ returned(me.row, read.market_data)
        /\ UNCHANGED <<now, last, best_offer_enabled, calc, stats, fetch, price_filter, resolver, condition_mapper, sweep>>

GetCachedMarketData == \E c \in Callers, identity \in Identities : get_cached(c, identity)

ClearStaleCache ==
    \E max_age_hours \in MaxAges :
        LET swept == clear_stale_cache(cache, max_age_hours)
        IN  /\ cache' = swept.store
            /\ op' = [id |-> 1 - op.id, name |-> "clear_stale_cache",
                      args |-> max_age_hours, result |-> swept.deleted_count,
                      row |-> None]
            /\ UNCHANGED <<now, last, best_offer_enabled, calc, stats, fetch, price_filter, resolver, condition_mapper, callers, sweep>>

ClearAllCache ==
    LET cleared == clear_all_cache(cache)
    IN  /\ cache' = cleared.store
        /\ op' = [id |-> 1 - op.id, name |-> "clear_all_cache",
                  args |-> None, result |-> cleared.deleted_count, row |-> None]
        /\ UNCHANGED <<now, last, best_offer_enabled, calc, stats, fetch, price_filter, resolver, condition_mapper, callers, sweep>>

\* get_cache_stats() by caller c, one step of it: the first SELECT COUNT,
\* or the second one, taken at the clock of that moment, and the result
GetCacheStats ==
    \E c \in Callers :
        /\ \/ /\ callers[c].pc = "idle"
              /\ callers[c].calls < MaxCalls
              /\ callers' = [callers EXCEPT ![c] =
                                [Returned EXCEPT !.pc = "counted",
                                                 !.name = "get_cache_stats",
                                                 !.total = Cardinality(cache),
                                                 !.calls = callers[c].calls]]
              /\ op' = op
           \/ /\ callers[c].pc = "counted"
              /\ callers' = [callers EXCEPT ![c] =
                                [Returned EXCEPT !.calls = callers[c].calls + 1]]
              /\ op' = [id |-> 1 - op.id, name |-> "get_cache_stats", args |-> None,
                        result |-> get_cache_stats(callers[c].total, cache),
                        row |-> None]
        /\ UNCHANGED <<now, cache, last, best_offer_enabled, calc, stats, fetch, price_filter, resolver, condition_mapper, sweep>>

\* the data_json text of a row is damaged on disk
CorruptEntry ==
    \E row \in cache :
        /\ row.data_json # NotJson
        /\ cache' = (cache \ {row}) \cup {[row EXCEPT !.data_json = NotJson]}
        /\ op' = [NoOp EXCEPT !.id = 1 - op.id, !.name = "damage"]
        /\ UNCHANGED <<now, last, best_offer_enabled, calc, stats, fetch, price_filter, resolver, condition_mapper, callers, sweep>>

SpecCache == InitCache /\ [][Tick \/ CacheMarketData \/ GetCachedMarketData]_vars

\* the upkeep of the store: puts, the clock, the sweep, the clearing and
\* the statistics
SpecUpkeep == InitCache /\ [][Tick \/ CacheMarketData \/ ClearStaleCache \/ ClearAllCache \/ GetCacheStats]_vars

(***************************************************************************)
(* The engine over a cache whose stored texts can be damaged: the clock,   *)
(* get_pricing_recommendation for one product, direct reads of the cache,  *)
(* and the damage of a row.                                                *)
(***************************************************************************)
PriceOverCache ==
    \E c \in Callers :
    \E api \in IF callers[c].pc = "fetching" THEN {ApiRaises, ActiveListings} ELSE {ApiRaises} :
        get_pricing_recommendation(c, "Apple", "iPad Air", "good", None, None, None,
                                   SoldComps, api)

SpecDamaged == InitCache /\ [][Tick \/ PriceOverCache \/ GetCachedMarketData \/ CorruptEntry]_vars

(***************************************************************************)
(* The cache store over products whose names contain the separator of the  *)
(* cache key.                                                              *)
(***************************************************************************)
Products ==
    {<<"Apple", "iPad", "LIKE_NEW">>,
     <<"Apple", "iPad_like", "NEW">>,
     <<"Apple", "iPad  Pro", "NEW">>}

PutProduct ==
    \E identity \in Products :
    \E research \in {SoldComps, Research(<<BasicListing(Rat(90, 1), identity[3])>>)} :
        LET market_data == fetch_market_data(identity[1], identity[2], identity[3],
                                             research, ApiRaises)
        IN  /\ cache' = cache_market_data(cache, market_data)
            /\ op' = [id |-> 1 - op.id, name |-> "cache_market_data",
                      args |-> market_data, result |-> None, row |-> None]
            /\ UNCHANGED <<now, last, best_offer_enabled, calc, stats, fetch, price_filter,
                           resolver, condition_mapper, callers, sweep>>

ReadProduct == \E c \in Callers, identity \in Products : get_cached(c, identity)

SpecProducts == InitCache /\ [][PutProduct \/ ReadProduct]_vars

(***************************************************************************)
(* The sweep on its own: puts, the clock and clear_stale_cache, with the   *)
(* hour of the last sweep.                                                 *)
(***************************************************************************)
InitSweep ==
    /\ now = 0
    /\ callers = [c \in Callers |-> Returned]
    /\ condition_mapper = Idle
    /\ resolver = Idle
    /\ price_filter = Idle
    /\ cache = {}
    /\ last = NoCall
    /\ best_offer_enabled = TRUE
    /\ calc = Idle
    /\ stats = Idle
    /\ fetch = Idle
    /\ op = NoOp
    /\ sweep = [busy |-> FALSE, max_age_hours |-> None, at |-> 0, deleted_count |-> 0]

SweepStale ==
    \E max_age_hours \in MaxAges :
        LET swept == clear_stale_cache(cache, max_age_hours)
        IN  /\ cache' = swept.store
            /\ sweep' = [busy |-> TRUE, max_age_hours |-> max_age_hours, at |-> now,
                         deleted_count |-> swept.deleted_count]
            /\ UNCHANGED <<now, last, best_offer_enabled, calc, stats, fetch, op,
                           price_filter, resolver, condition_mapper, callers>>

SpecSweep == InitSweep /\ [][Tick \/ PutProduct \/ SweepStale]_vars

(***************************************************************************)
(* The minimum price classifier on its own.                                *)
(***************************************************************************)
FilterBrands ==
    {"Apple", "DELL", "Sony", "Microsoft", "Canon", "Samsung", "Valve", "Nikon",
     "Apple ", "Google", "Generic"}

FilterModels ==
    {"iPad Air", "MacBook Pro", "Galaxy Tab S7", "PlayStation 5", "WH-1000XM4",
     "EOS DSLR Camera", "iPhone 13", "Kindle Paperwhite", "Surface Laptop",
     "Stable Mount", "Pixel 7", "Steam Deck", "Xbox Phone Adapter", "Z6 Mirrorless"}

InitFilter ==
    /\ now = 0
    /\ sweep = Idle
    /\ callers = Idle
    /\ condition_mapper = Idle
    /\ resolver = Idle
    /\ cache = {}
    /\ last = NoCall
    /\ best_offer_enabled = TRUE
    /\ calc = Idle
    /\ stats = Idle
    /\ fetch = Idle
    /\ op = NoOp
    /\ \E brand \in FilterBrands, model \in FilterModels :
           price_filter = [busy |-> TRUE, brand |-> brand, model |-> model,
                           min_price |-> None]

GetMinimumPriceFilter ==
    /\ price_filter.busy
    /\ price_filter.min_price = None
    /\ price_filter' = [price_filter EXCEPT !.min_price =
                           Some(_get_minimum_price_filter(price_filter.brand,
                                                          price_filter.model))]
    /\ UNCHANGED <<now, cache, last, best_offer_enabled, calc, stats, fetch, op, resolver, condition_mapper, callers, sweep>>

SpecFilter == InitFilter /\ [][GetMinimumPriceFilter]_vars

(***************************************************************************)
(* The UPC resolver on its own: one UPCLookup object, its keys read from   *)
(* the environment at construction, and lookups of the codes below by the  *)
(* callers under every answer of the three providers.                      *)
(***************************************************************************)
Codes == {" - ", "0123-45", "012345", "99"}

Item == [title |-> "Apple MacBook Air M1", brand |-> "Apple", model |-> "MGN63LL/A",
         msrp |-> PriceString("$999.00")]

HttpRaises == [raises |-> TRUE, status_code |-> 0, items |-> <<>>]

HttpStatus(status_code, items) ==
    [raises |-> FALSE, status_code |-> status_code, items |-> items]

ProviderResponses ==
    [upcitemdb : {HttpRaises, HttpStatus(200, <<Item>>), HttpStatus(500, <<>>)},
     barcodelookup : {HttpStatus(200, <<Item>>), HttpStatus(500, <<Item>>)},
     openfoodfacts : {HttpRaises, HttpStatus(200, <<Item>>), HttpStatus(200, <<>>)}]

NoLookup ==
    [id |-> 0, upc |-> "", responses |-> None, cached |-> FALSE, result |-> None,
     requests |-> <<>>]

InitLookup ==
    /\ now = 0
    /\ sweep = Idle
    /\ callers = [c \in Callers |-> Returned]
    /\ condition_mapper = Idle
    /\ cache = {}
    /\ last = NoCall
    /\ best_offer_enabled = TRUE
    /\ calc = Idle
    /\ stats = Idle
    /\ fetch = Idle
    /\ op = NoOp
    /\ price_filter = Idle
    /\ \E upcitemdb_key \in BOOLEAN, barcodelookup_key \in BOOLEAN :
           resolver = [busy |-> TRUE, upcitemdb_key |-> upcitemdb_key,
                       barcodelookup_key |-> barcodelookup_key,
                       cache |-> [c \in {} |-> None], last |-> NoLookup,
                       returned |-> {}]

\* UPCLookup.lookup(upc) by caller c, one step of it: the call up to its
\* test of the session cache, or one provider of the chain; responses are
\* the answers of the providers, those of the providers tried before being
\* the ones the lookup received
lookup(c, upc, responses) ==
    LET me == callers[c]
        returned(out) ==
            /\ resolver' = Resolved(upc, responses, out)
            /\ callers' = [callers EXCEPT ![c] = [Returned EXCEPT !.calls = me.calls + 1]]
    IN  \/ /\ me.pc = "idle"
           /\ me.calls < MaxCalls
           /\ LET out == lookup_cached(resolver, upc)
              IN  IF out.returns
                  THEN returned(out)
                  ELSE /\ resolver' = resolver
                       /\ callers' = [callers EXCEPT ![c] =
                              [Returned EXCEPT !.pc = "looking",
                                               !.name = "lookup",
                                               !.args.upc = Some(upc),
                                               !.chain = out.chain,
                                               !.calls = me.calls]]
        \/ /\ me.pc = "looking"
           /\ me.name = "lookup"
           /\ me.args.upc = Some(upc)
           /\ \A i \in 1..Len(me.chain.answers) :
                 responses[ProviderOrder[i]] = me.chain.answers[i]
           /\ LET out == lookup_try(resolver, me.chain,
                                    responses[ProviderOrder[me.chain.provider]])
              IN  IF out.returns
                  THEN returned(out)
                  ELSE /\ resolver' = resolver
                       /\ callers' = [callers EXCEPT ![c].chain = out.chain]

Lookup ==
    /\ resolver.busy
    /\ \E c \in Callers, upc \in Codes, responses \in ProviderResponses :
           lookup(c, upc, responses)
    /\ UNCHANGED <<now, cache, last, best_offer_enabled, calc, stats, fetch, op,
                   price_filter, condition_mapper, sweep>>

SpecLookup == InitLookup /\ [][Lookup]_vars

(***************************************************************************)
(* ebay_autolister.py: ConditionMapper.map_condition, on its own.          *)
(***************************************************************************)
\* the keys of CONDITION_MAPPINGS in the order of the dictionary
CONDITION_MAPPINGS_keys ==
    <<"like new", "very good", "good", "acceptable", "salvage", "likenew",
      "like-new", "verygood", "very-good", "vgood", "v good", "vg", "new",
      "brand new", "sealed", "mint", "unopened", "open box",
      "new open box", "new other", "new without tags", "graded",
      "new with defects", "new damaged", "new imperfect",
      "certified refurbished", "manufacturer refurbished",
      "excellent refurbished", "very good refurbished", "good refurbished",
      "seller refurbished", "refurbished", "renewed", "restored",
      "used excellent", "used like new", "excellent", "near mint",
      "used very good", "light wear", "used good", "moderate wear",
      "normal wear", "used acceptable", "fair", "heavy wear", "well used",
      "pre owned excellent", "pre owned fair", "pre-owned excellent",
      "pre-owned fair", "for parts", "not working", "broken", "parts only",
      "repair", "damaged", "scrap", "parts">>

GRADE_MAPPINGS ==
    ("10" :> "LIKE_NEW") @@
    ("9.5" :> "LIKE_NEW") @@
    ("9" :> "LIKE_NEW") @@
    ("8.5" :> "USED_EXCELLENT") @@
    ("8" :> "USED_EXCELLENT") @@
    ("7.5" :> "USED_VERY_GOOD") @@
    ("7" :> "USED_VERY_GOOD") @@
    ("6.5" :> "USED_GOOD") @@
    ("6" :> "USED_GOOD") @@
    ("5" :> "USED_ACCEPTABLE") @@
    ("4" :> "USED_ACCEPTABLE") @@
    ("3" :> "USED_ACCEPTABLE") @@
    ("2" :> "FOR_PARTS_OR_NOT_WORKING") @@
    ("1" :> "FOR_PARTS_OR_NOT_WORKING") @@
    ("A+" :> "LIKE_NEW") @@
    ("A" :> "USED_EXCELLENT") @@
    ("A-" :> "USED_EXCELLENT") @@
    ("B+" :> "USED_VERY_GOOD") @@
    ("B" :> "USED_VERY_GOOD") @@
    ("B-" :> "USED_GOOD") @@
    ("C+" :> "USED_GOOD") @@
    ("C" :> "USED_ACCEPTABLE") @@
    ("C-" :> "USED_ACCEPTABLE") @@
    ("D" :> "FOR_PARTS_OR_NOT_WORKING") @@
    ("F" :> "FOR_PARTS_OR_NOT_WORKING")

\* key in condition_clean or condition_clean in key
FuzzyMatch(key, condition_clean) ==
    Contains(condition_clean, key) \/ Contains(key, condition_clean)

\* the value of the first key, in dictionary order, that matches fuzzily;
\* None when no key does
RECURSIVE FirstFuzzy(_, _)
FirstFuzzy(condition_clean, i) ==
    IF i > Len(CONDITION_MAPPINGS_keys) THEN None
    ELSE IF FuzzyMatch(CONDITION_MAPPINGS_keys[i], condition_clean)
    THEN Some(CONDITION_MAPPINGS[CONDITION_MAPPINGS_keys[i]])
    ELSE FirstFuzzy(condition_clean, i + 1)

\* the default fallback on common terms
FallbackCondition(condition_clean) ==
    IF AnyIn({"new", "mint", "sealed"}, condition_clean) THEN "NEW"
    ELSE IF AnyIn({"excellent", "near mint"}, condition_clean) THEN "USED_EXCELLENT"
    ELSE IF AnyIn({"very good", "light"}, condition_clean) THEN "USED_VERY_GOOD"
    ELSE IF AnyIn({"good", "normal"}, condition_clean) THEN "USED_GOOD"
    ELSE IF AnyIn({"acceptable", "fair", "heavy"}, condition_clean) THEN "USED_ACCEPTABLE"
    ELSE IF AnyIn({"parts", "broken", "repair"}, condition_clean)
    THEN "FOR_PARTS_OR_NOT_WORKING"
    ELSE "USED_GOOD"

map_condition_fuzzy_first(condition, grade) ==
    LET grade_clean == upper(strip(grade))
        condition_clean == strip(lower(condition))
        fuzzy == FirstFuzzy(condition_clean, 1)
    IN  IF grade # "" /\ grade_clean \in DOMAIN GRADE_MAPPINGS
        THEN GRADE_MAPPINGS[grade_clean]
        ELSE IF fuzzy # None THEN fuzzy[1]
        ELSE IF condition_clean \in DOMAIN CONDITION_MAPPINGS
        THEN CONDITION_MAPPINGS[condition_clean]
        ELSE FallbackCondition(condition_clean)

\* ConditionMapper.map_condition(condition, grade), grade "" when omitted
map_condition(condition, grade) ==
    LET grade_clean == upper(strip(grade))
        condition_clean == strip(lower(condition))
        fuzzy == FirstFuzzy(condition_clean, 1)
    IN  IF grade # "" /\ grade_clean \in DOMAIN GRADE_MAPPINGS
        THEN GRADE_MAPPINGS[grade_clean]
        ELSE IF condition_clean \in DOMAIN CONDITION_MAPPINGS
        THEN CONDITION_MAPPINGS[condition_clean]
        ELSE IF fuzzy # None THEN fuzzy[1]
        ELSE FallbackCondition(condition_clean)

\* spellings of a key: as it is, in capitals, capitalized, and in capitals
\* between blanks
Spellings(key) ==
    {key, upper(key), upper(SubSeq(key, 1, 1)) \o SubSeq(key, 2, Len(key)),
     "  " \o upper(key) \o " "}

MapperConditions ==
    UNION {Spellings(key) : key \in DOMAIN CONDITION_MAPPINGS}
    \cup {"", "Goodish", "mint condition", "Heavy scratches", "unknown", "ok"}

InitMapper ==
    /\ now = 0
    /\ sweep = Idle
    /\ callers = Idle
    /\ resolver = Idle
    /\ price_filter = Idle
    /\ op = Idle
    /\ fetch = Idle
    /\ cache = {}
    /\ last = NoCall
    /\ best_offer_enabled = TRUE
    /\ calc = Idle
    /\ stats = Idle
    /\ condition_mapper = [busy |-> FALSE, condition |-> "", grade |-> "", result |-> ""]

MapCondition ==
    /\ \E condition \in MapperConditions, grade \in {"", " a+ ", "Z"} :
           condition_mapper' = [busy |-> TRUE, condition |-> condition, grade |-> grade,
                                result |-> map_condition(condition, grade)]
    /\ UNCHANGED <<now, cache, last, best_offer_enabled, calc, stats, fetch, op,
                   price_filter, resolver, callers, sweep>>

SpecMapper == InitMapper /\ [][MapCondition]_vars

(***************************************************************************)
(* The engine with a UPC: get_pricing_recommendation over the process-wide *)
(* resolver, with and without a code, under the answers of the providers   *)
(* below.                                                                  *)
(***************************************************************************)
UpcResponses ==
    [upcitemdb : {HttpRaises, HttpStatus(200, <<Item>>),
                  HttpStatus(200, <<[title |-> "", brand |-> "", model |-> "MGN63LL/A",
                                     msrp |-> NoPriceGiven]>>)},
     barcodelookup : {HttpStatus(500, <<>>)},
     openfoodfacts : {HttpRaises}]

PriceWithUpc ==
    /\ resolver.busy
    /\ \E c \in Callers, retail_price \in {None, Some(Zero), Some(Rat(599, 1))},
          upc \in {None, Some("012345")} :
       \E responses \in IF callers[c].pc \in {"idle", "looking"} /\ upc # None
                         THEN UpcResponses ELSE {CHOOSE r \in UpcResponses : TRUE},
          research \in IF callers[c].pc = "fetching"
                       THEN {ResearchRaises, SoldComps} ELSE {ResearchRaises} :
           get_pricing_recommendation(c, "Generic", "iPad Air", "good", retail_price, upc,
                                      responses, research, ApiRaises)

SpecUpc == InitLookup /\ [][PriceWithUpc]_vars

(***************************************************************************)
(* Properties of the pricing calculator, checked under SpecCalc.           *)
(***************************************************************************)
CalcOut == calc.pricing[1]

RetailPositive == calc.retail_price # None /\ RLt(Zero, calc.retail_price[1])

\* C3: calculate_pricing_from_market_data uses exactly the first satisfied
\* tier of: sold_count >= 3 (base avg_sold_price, confidence 0.9, whatever
\* the active data and retail price), active_listing_count > 0 (base
\* avg_active_price * 0.95, confidence 0.6), retail_price > 0 (base
\* retail_price * 0.50, confidence 0.3), and otherwise the no-data terminal.
C3_TierOrder ==
    calc.pricing # None =>
        LET md == calc.market_data
            why == CalcOut.reasoning
        IN  /\ md.sold_count >= 3 =>
                  /\ why.tier = "sold"
                  /\ why.base_price = Some(md.avg_sold_price)
                  /\ CalcOut.confidence = Rat(9, 10)
            /\ (md.sold_count < 3 /\ md.active_listing_count > 0) =>
                  /\ why.tier = "active"
                  /\ why.base_price = Some(RMul(md.avg_active_price, Rat(95, 100)))
                  /\ CalcOut.confidence = Rat(6, 10)
            /\ (md.sold_count < 3 /\ md.active_listing_count = 0 /\ RetailPositive) =>
                  /\ why.tier = "fallback"
                  /\ why.base_price = Some(RMul(calc.retail_price[1], Rat(1, 2)))
                  /\ CalcOut.confidence = Rat(3, 10)
            /\ (md.sold_count < 3 /\ md.active_listing_count = 0 /\ ~RetailPositive) =>
                  /\ why.tier = "none"
                  /\ CalcOut.buy_it_now_price = Zero
                  /\ CalcOut.confidence = Zero

\* the sold tier was used although active listings and a retail price exist
C3_Witness ==
    /\ calc.pricing # None
    /\ calc.market_data.sold_count >= 3
    /\ calc.market_data.active_listing_count > 0
    /\ RetailPositive
    /\ CalcOut.reasoning.tier = "sold"

\* C5: with sold_count = 0, active_listing_count = 0 and no positive retail
\* price, the calculator returns a recommendation with buy_it_now_price 0.0,
\* confidence 0.0 and the three best-offer thresholds unset.
C5_NoDataTerminal ==
    (/\ calc.pricing # None
     /\ calc.market_data.sold_count = 0
     /\ calc.market_data.active_listing_count = 0
     /\ ~RetailPositive) =>
        /\ CalcOut.buy_it_now_price = Zero
        /\ CalcOut.confidence = Zero
        /\ CalcOut.min_offer_price = None
        /\ CalcOut.auto_accept_offer = None
        /\ CalcOut.auto_decline_offer = None

\* the calculator returned for an empty record and a retail price of 0
C5_Witness ==
    /\ calc.pricing # None
    /\ calc.market_data.sold_count = 0
    /\ calc.market_data.active_listing_count = 0
    /\ calc.retail_price = Some(Zero)
    /\ best_offer_enabled
    /\ CalcOut.reasoning.tier = "none"

\* C6: in tiers 1-3 buy_it_now_price = base_price * 0.92 * (1 - penalty),
\* the penalty being 0% LIKE_NEW, 5% USED_EXCELLENT, 10% USED_VERY_GOOD and
\* USED_GOOD, 20% USED_ACCEPTABLE, 50% FOR_PARTS_OR_NOT_WORKING and 10% for
\* any other condition; three sold comps averaging 200.00 in USED_GOOD give
\* 165.60, and retail 599.00 with no market data in LIKE_NEW gives 275.54.
C6_BinFormula ==
    calc.pricing # None =>
        LET md == calc.market_data
            c == calc.condition
            penalty == CASE c = "LIKE_NEW" -> Rat(0, 100)
                         [] c = "USED_EXCELLENT" -> Rat(5, 100)
                         [] c = "USED_VERY_GOOD" -> Rat(10, 100)
                         [] c = "USED_GOOD" -> Rat(10, 100)
                         [] c = "USED_ACCEPTABLE" -> Rat(20, 100)
                         [] c = "FOR_PARTS_OR_NOT_WORKING" -> Rat(50, 100)
                         [] OTHER -> Rat(10, 100)
        IN  /\ CalcOut.reasoning.tier # "none" =>
                  CalcOut.buy_it_now_price =
                      RMul(RMul(CalcOut.reasoning.base_price[1], Rat(92, 100)),
                           RSub(Rat(1, 1), penalty))
            /\ (md.sold_count = 3 /\ md.avg_sold_price = Rat(200, 1) /\ c = "USED_GOOD") =>
                  CalcOut.buy_it_now_price = Rat(16560, 100)
            /\ (/\ md.sold_count = 0
                /\ md.active_listing_count = 0
                /\ calc.retail_price = Some(Rat(599, 1))
                /\ c = "LIKE_NEW") =>
                  CalcOut.buy_it_now_price = Rat(27554, 100)

\* three sold comps at 200.00, condition USED_GOOD, priced
C6_Witness ==
    /\ calc.pricing # None
    /\ calc.market_data.sold_count = 3
    /\ calc.market_data.avg_sold_price = Rat(200, 1)
    /\ calc.condition = "USED_GOOD"
    /\ CalcOut.reasoning.tier = "sold"

\* C7: when a price tier is used and best offer is enabled, min_offer_price
\* = BIN * 0.85, auto_accept_offer = BIN * 0.95 and auto_decline_offer =
\* BIN * 0.75, hence auto_decline_offer <= min_offer_price <=
\* auto_accept_offer <= buy_it_now_price; when best offer is disabled the
\* three are unset.
C7_BestOffer ==
    (calc.pricing # None /\ CalcOut.reasoning.tier # "none") =>
        LET bin == CalcOut.buy_it_now_price
        IN  IF best_offer_enabled
            THEN /\ CalcOut.min_offer_price = Some(RMul(bin, Rat(85, 100)))
                 /\ CalcOut.auto_accept_offer = Some(RMul(bin, Rat(95, 100)))
                 /\ CalcOut.auto_decline_offer = Some(RMul(bin, Rat(75, 100)))
                 /\ RLe(CalcOut.auto_decline_offer[1], CalcOut.min_offer_price[1])
                 /\ RLe(CalcOut.min_offer_price[1], CalcOut.auto_accept_offer[1])
                 /\ RLe(CalcOut.auto_accept_offer[1], bin)
            ELSE /\ CalcOut.min_offer_price = None
                 /\ CalcOut.auto_accept_offer = None
                 /\ CalcOut.auto_decline_offer = None

\* a positive price was computed with best offer enabled
C7_Witness ==
    /\ calc.pricing # None
    /\ best_offer_enabled
    /\ CalcOut.reasoning.tier = "active"
    /\ RLt(Zero, CalcOut.buy_it_now_price)
    /\ CalcOut.min_offer_price # None

BinFor(condition) ==
    calculate_pricing_from_market_data(calc.market_data, condition,
                                       calc.retail_price).buy_it_now_price

\* C8 as stated: for any fixed market record and retail price, the BIN for
\* FOR_PARTS_OR_NOT_WORKING is strictly less than the BIN for USED_GOOD,
\* which is strictly less than the BIN for LIKE_NEW.
C8_StrictlyMonotone ==
    calc.pricing # None =>
        /\ RLt(BinFor("FOR_PARTS_OR_NOT_WORKING"), BinFor("USED_GOOD"))
        /\ RLt(BinFor("USED_GOOD"), BinFor("LIKE_NEW"))

\* C8 amended: the three BIN prices are strictly ordered whenever a price
\* tier is used with a positive base price; otherwise (no-data terminal, or
\* a base price of 0) all three are 0.0.
C8_MonotoneWhenPriced ==
    calc.pricing # None =>
        LET why == CalcOut.reasoning
        IN  IF why.tier # "none" /\ RLt(Zero, why.base_price[1])
            THEN /\ RLt(BinFor("FOR_PARTS_OR_NOT_WORKING"), BinFor("USED_GOOD"))
                 /\ RLt(BinFor("USED_GOOD"), BinFor("LIKE_NEW"))
            ELSE /\ BinFor("FOR_PARTS_OR_NOT_WORKING") = Zero
                 /\ BinFor("USED_GOOD") = Zero
                 /\ BinFor("LIKE_NEW") = Zero

\* a USED_GOOD item priced from the retail fallback
C8_Witness ==
    /\ calc.pricing # None
    /\ calc.condition = "USED_GOOD"
    /\ CalcOut.reasoning.tier = "fallback"
    /\ RLt(Zero, CalcOut.buy_it_now_price)

(***************************************************************************)
(* Properties of the sold statistics, checked under SpecStats.             *)
(***************************************************************************)
C9Prices == <<Rat(100, 1), Rat(102, 1), Rat(98, 1), Rat(101, 1), Rat(5000, 1)>>

\* C9 as stated: for sold prices [100, 102, 98, 101, 5000] the outlier
\* removal with the default threshold 2.5 excludes 5000, and
\* calculate_sold_stats computes avg and median from the remaining four.
C9_Excludes5000 ==
    /\ (stats.op = "remove_outliers" /\ stats.prices = C9Prices /\ stats.threshold = None) =>
           stats.filtered = <<Rat(100, 1), Rat(102, 1), Rat(98, 1), Rat(101, 1)>>
    /\ (stats.op = "calculate_sold_stats" /\ stats.prices = C9Prices) =>
           /\ stats.sold_stats.avg_sold_price = Rat(401, 4)
           /\ stats.sold_stats.median_sold_price = Rat(201, 2)

\* C9 amended: for sold prices [100, 102, 98, 101, 5000] the z-score of 5000
\* on the sample standard deviation is about 1.79, below the threshold 2.5,
\* so the outlier removal keeps all five prices and calculate_sold_stats
\* computes avg 1080.2 and median 101 from all five.
C9_KeepsAllFive ==
    /\ (stats.op = "remove_outliers" /\ stats.prices = C9Prices /\ stats.threshold = None) =>
           stats.filtered = C9Prices
    /\ (stats.op = "calculate_sold_stats" /\ stats.prices = C9Prices) =>
           /\ stats.sold_stats.avg_sold_price = Rat(10802, 10)
           /\ stats.sold_stats.median_sold_price = Rat(101, 1)

\* calculate_sold_stats ran on the five prices
C9_Witness ==
    /\ stats.op = "calculate_sold_stats"
    /\ stats.prices = C9Prices
    /\ stats.sold_stats.sold_count = 5

\* C10: remove_outliers returns a non-empty list for every non-empty price
\* list and threshold; it returns the input unchanged when there are fewer
\* than 3 prices or the sample standard deviation is 0; and when every price
\* would be dropped it returns just the median of the original prices.
C10_NeverEmpty ==
    stats.op = "remove_outliers" =>
        LET prices == stats.prices
            thr == IF stats.threshold = None THEN Rat(25, 10) ELSE stats.threshold[1]
            all_dropped ==
                /\ variance(prices) # Zero
                /\ \A i \in 1..Len(prices) :
                       ~ZScoreWithin(prices[i], prices, mean(prices), variance(prices), thr)
        IN  /\ prices # <<>> => stats.filtered # <<>>
            /\ Len(prices) < 3 => stats.filtered = prices
            /\ (Len(prices) >= 3 /\ variance(prices) = Zero) => stats.filtered = prices
            /\ (Len(prices) >= 3 /\ all_dropped) => stats.filtered = <<median(prices)>>

\* four prices all dropped: the result is their median, which is none of them
C10_Witness ==
    /\ stats.op = "remove_outliers"
    /\ Len(stats.prices) = 4
    /\ Len(stats.filtered) = 1
    /\ \A i \in 1..4 : stats.prices[i] # stats.filtered[1]

(***************************************************************************)
(* Properties of get_pricing_recommendation, checked under Spec.           *)
(***************************************************************************)
\* in this step a call of get_pricing_recommendation returns that repeats
\* the arguments of the call that returned before it, no later than the
\* cache TTL after it, and that ran with no other call in progress
RepeatedCall ==
    /\ last.called
    /\ last'.id # last.id
    /\ last'.alone
    /\ last'.brand = last.brand
    /\ last'.model = last.model
    /\ last'.condition = last.condition
    /\ last'.retail_price = last.retail_price
    /\ last'.at - last.at <= cache_duration_hours

\* C1: two successive calls of get_pricing_recommendation with the same
\* arguments, the second within the cache TTL of the first, return the same
\* buy_it_now_price, whatever the sources return on each call.
C1_RepeatSameBin ==
    [][RepeatedCall =>
          last'.pricing.buy_it_now_price = last.pricing.buy_it_now_price]_vars

\* C2: after a call that missed the cache, the fetched record is cached: a
\* second call with the same arguments within the TTL is served from the
\* cache, and its market record reports a positive data_age (the clock
\* counts whole hours, so positive once the clock has advanced).
C2_MissThenHit ==
    [][(RepeatedCall /\ ~last.hit) =>
          /\ last'.hit
          /\ last'.at > last.at => last'.pricing.market_data.data_age_hours > 0]_vars

\* C4: every recommendation returned by get_pricing_recommendation with
\* buy_it_now_price 0.0 has confidence 0.0.
C4_ZeroPriceZeroConfidence ==
    last.called =>
        (last.pricing.buy_it_now_price = Zero => last.pricing.confidence = Zero)

(***************************************************************************)
(* Properties of the sold statistics and the aggregator.                   *)
(***************************************************************************)
\* C11: for a non-empty list of sold listings, calculate_sold_stats returns
\* avg, median, min and max computed over the outlier-filtered prices (so
\* price_range_low <= avg_sold_price <= price_range_high and
\* price_range_low <= median_sold_price <= price_range_high), while
\* sold_count is the number of listings before filtering.
C11_StatsOverFiltered ==
    (stats.busy /\ stats.op = "calculate_sold_stats" /\ stats.prices # <<>>) =>
        LET kept == remove_outliers(stats.prices, None)
            s == stats.sold_stats
        IN  /\ s.avg_sold_price = mean(kept)
            /\ s.median_sold_price = median(kept)
            /\ \E i \in 1..Len(kept) : kept[i] = s.price_range_low
            /\ \E i \in 1..Len(kept) : kept[i] = s.price_range_high
            /\ \A i \in 1..Len(kept) :
                   RLe(s.price_range_low, kept[i]) /\ RLe(kept[i], s.price_range_high)
            /\ RLe(s.price_range_low, s.avg_sold_price)
            /\ RLe(s.avg_sold_price, s.price_range_high)
            /\ RLe(s.price_range_low, s.median_sold_price)
            /\ RLe(s.median_sold_price, s.price_range_high)
            /\ s.sold_count = Len(stats.prices)

\* C11 witness: statistics of a list from which the filter removed a price,
\* so the count exceeds the number of prices the statistics are taken over
C11_Witness ==
    /\ stats.busy
    /\ stats.op = "calculate_sold_stats"
    /\ Len(remove_outliers(stats.prices, None)) < Len(stats.prices)
    /\ stats.sold_stats.sold_count = Len(stats.prices)
    /\ RLt(stats.sold_stats.price_range_low, stats.sold_stats.price_range_high)
    /\ RLt(stats.sold_stats.price_range_high, Rat(1000, 1))

\* C12: fetch_market_data always returns a record and never raises: an
\* exception or empty result from the sold-comp research leaves the sold
\* side at zero but still lets the active-listing search run and contribute,
\* and vice versa; when both sources yield nothing the record has
\* sold_count = active_listing_count = 0 and sources = [].  A source that
\* raises is an outcome FetchMarketData accepts like any other, so the
\* property is stated on the record every call returns.
C12_FetchAlwaysReturns ==
    (fetch.busy /\ fetch.market_data # None) =>
        LET research == fetch.research
            no_sold == research.raises \/ research.listings = <<>>
            active_stats == analyze_active_competition(fetch.api)
            no_active == active_stats.active_listing_count = 0
            md == fetch.market_data[1]
            Sources == {md.sources[i] : i \in 1..Len(md.sources)}
        IN  /\ md.brand = "Apple" /\ md.model = "iPad Air"
            /\ md.condition = "USED_GOOD"
            /\ no_sold =>
                  /\ md.sold_count = 0
                  /\ md.sold_listings = <<>>
                  /\ md.avg_sold_price = Zero
                  /\ md.median_sold_price = Zero
                  /\ "ai_research" \notin Sources
            /\ ~no_sold =>
                  /\ md.sold_count = Len(research.listings)
                  /\ md.sold_listings = research.listings
                  /\ "ai_research" \in Sources
            /\ no_active =>
                  /\ md.active_listing_count = 0
                  /\ md.avg_active_price = Zero
                  /\ "browse_api" \notin Sources
            /\ ~no_active =>
                  /\ md.active_listing_count = active_stats.active_listing_count
                  /\ md.avg_active_price = active_stats.avg_active_price
                  /\ md.median_active_price = active_stats.median_active_price
                  /\ "browse_api" \in Sources
            /\ (no_sold /\ no_active) => md.sources = <<>>

\* C12 witness: the research raised, and the record still carries the
\* active listings of the Browse API
C12_Witness ==
    /\ fetch.busy
    /\ fetch.research.raises
    /\ fetch.market_data # None
    /\ fetch.market_data[1].sold_count = 0
    /\ fetch.market_data[1].active_listing_count = 2
    /\ fetch.market_data[1].avg_active_price = Rat(300, 1)
    /\ fetch.market_data[1].sources = <<"browse_api">>

(***************************************************************************)
(* Properties of the cache manager: those of the reads and the puts are   *)
(* checked under SpecCache, those of the sweep and the statistics under    *)
(* SpecUpkeep.  An operation returns in the step that flips op.id.         *)
(***************************************************************************)
\* the cache key of the identities explored, written out
KeyOf(identity) ==
    IF identity[1] = "Sony" THEN "sony_wh-1000xm4_new" ELSE "apple_ipad air_used_good"

CacheStep(name) == op'.id # op.id /\ op'.name = name

RowsUnder(store, cache_key) == {r \in store : r.cache_key = cache_key}

RowsElsewhere(store, cache_key) == {r \in store : r.cache_key # cache_key}

\* C13: get_cached_market_data returns absent when no entry exists for the
\* key or when now > expires_at; in the expired case the entry is deleted as
\* a side effect of the read, and in both cases every entry under another
\* key is left unchanged.  op'.row is the row the SELECT of the read
\* returned, None when there was no entry.
C13_MissAndExpiry ==
    [][CacheStep("get_cached_market_data") =>
          LET cache_key == KeyOf(op'.args)
              row == op'.row
              expired == row # None /\ now > row[1].expires_at
          IN  /\ row = None =>
                    /\ RowsUnder(cache, cache_key) = {}
                    /\ op'.result = None
                    /\ cache' = cache
              /\ expired =>
                    /\ op'.result = None
                    /\ RowsUnder(cache', cache_key) = {}
              /\ (row = None \/ expired) =>
                    RowsElsewhere(cache', cache_key) = RowsElsewhere(cache, cache_key)]_vars

\* C13 witness: a read of a key whose row had expired returned absent and
\* left no row under the key, while a row under another key remains
C13_Witness ==
    /\ op.name = "get_cached_market_data"
    /\ op.result = None
    /\ op.row # None
    /\ op.row[1].cache_key = KeyOf(op.args)
    /\ op.row[1].data_json # NotJson
    /\ now > op.row[1].expires_at
    /\ RowsUnder(cache, KeyOf(op.args)) = {}
    /\ RowsElsewhere(cache, KeyOf(op.args)) # {}

\* C14: after any sequence of cache operations the store holds at most one
\* entry per cache key: cache_market_data writes created_at = now and
\* expires_at = now + TTL (24h) and replaces any existing entry for the
\* record's key, so a later read sees only the most recently put record.
C14_OneEntryPerKey ==
    /\ [](\A r1, r2 \in cache : r1.cache_key = r2.cache_key => r1 = r2)
    /\ [][CacheStep("cache_market_data") =>
            LET market_data == op'.args
                cache_key == KeyOf(<<market_data.brand, market_data.model,
                                     market_data.condition>>)
            IN  /\ \E row \in cache' :
                      /\ RowsUnder(cache', cache_key) = {row}
                      /\ row.created_at = now
                      /\ row.expires_at = now + 24
                      /\ row.brand = market_data.brand
                      /\ row.model = market_data.model
                      /\ row.condition = market_data.condition
                /\ RowsElsewhere(cache', cache_key) = RowsElsewhere(cache, cache_key)
                /\ \A read \in {get_cached_market_data(cache', market_data.brand,
                                                      market_data.model,
                                                      market_data.condition)} :
                      /\ read.market_data # None
                      /\ read.market_data[1].brand = market_data.brand
                      /\ read.market_data[1].sold_count = market_data.sold_count
                      /\ read.market_data[1].active_listing_count =
                             market_data.active_listing_count]_vars

\* C14 witness: a record put under the second spelling of the shared key,
\* after the clock has advanced, is the one row under that key, next to a
\* row under the other key
C14_Witness ==
    /\ op.name = "cache_market_data"
    /\ op.args.brand = "apple"
    /\ now > 0
    /\ \E row \in cache :
          /\ RowsUnder(cache, "apple_ipad air_used_good") = {row}
          /\ row.brand = "apple"
          /\ row.created_at = now
    /\ RowsUnder(cache, "sony_wh-1000xm4_new") # {}

\* C15: a get_cached_market_data for a record's identity, made after
\* cache_market_data(record) and no later than its expires_at, is a hit that
\* returns a record equal to the stored one in brand, model, condition, all
\* sold-side fields and listings, all active-side fields and sources, with
\* data_age set to now - created_at (hence 0 <= data_age <= TTL).  The read
\* returns in this step; the operation completed last before it is the put
\* of the record, and the row its SELECT returned is the row stored.  The
\* listings are equal in title, price, sold_date, condition, source and
\* url, after the text written by json.dumps and isoformat is read back by
\* json.loads and fromisoformat.
C15_RoundTrip ==
    [][(/\ CacheStep("get_cached_market_data")
        /\ op.name = "cache_market_data"
        /\ KeyOf(<<op.args.brand, op.args.model, op.args.condition>>) = KeyOf(op'.args)
        /\ op'.row # None
        /\ op'.row[1] \in cache
        /\ now <= op'.row[1].expires_at) =>
          LET stored == op.args
              row == op'.row[1]
          IN  /\ op'.result # None
              /\ row \in cache'
              /\ LET got == op'.result[1]
                 IN  /\ got.brand = stored.brand
                     /\ got.model = stored.model
                     /\ got.condition = stored.condition
                     /\ got.avg_sold_price = stored.avg_sold_price
                     /\ got.median_sold_price = stored.median_sold_price
                     /\ got.price_range_low = stored.price_range_low
                     /\ got.price_range_high = stored.price_range_high
                     /\ got.sold_count = stored.sold_count
                     /\ got.sold_listings = stored.sold_listings
                     /\ got.active_listing_count = stored.active_listing_count
                     /\ got.avg_active_price = stored.avg_active_price
                     /\ got.median_active_price = stored.median_active_price
                     /\ got.sources = stored.sources
                     /\ got.data_age_hours = now - row.created_at
                     /\ 0 <= got.data_age_hours
                     /\ got.data_age_hours <= 24]_vars

\* C15 witness: a hit, some hours after the put, under the other spelling
\* of the identity, returning the sold listings and the active prices; one
\* listing has no url, another a url and a sold_date with microseconds
C15_Witness ==
    /\ op.name = "get_cached_market_data"
    /\ op.args[1] = "Apple"
    /\ op.row # None
    /\ op.row[1] \in cache
    /\ op.row[1].brand = "apple"
    /\ op.result # None
    /\ op.result[1].brand = "apple"
    /\ op.result[1].data_age_hours > 0
    /\ Len(op.result[1].sold_listings) = 3
    /\ op.result[1].sold_listings[1].url = None
    /\ op.result[1].sold_listings[2].url = Some(ListingUrl)
    /\ op.result[1].sold_listings[2].sold_date = SearchTime
    /\ op.result[1].sold_listings[3].sold_date = DateGiven
    /\ op.result[1].sold_listings[3].source = "tavily_ai"
    /\ op.result[1].avg_active_price = Rat(350, 1)

\* C16: clear_stale_cache(max_age) deletes exactly the entries with
\* expires_at < now - max_age, returns the number of entries it deleted, and
\* leaves every other entry unchanged (max_age is the TTL of 24 hours when
\* the argument is omitted).
C16_SweepExact ==
    [][CacheStep("clear_stale_cache") =>
          LET max_age == IF op'.args = None THEN 24 ELSE op'.args[1]
              stale == {r \in cache : r.expires_at < now - max_age}
          IN  /\ cache' = cache \ stale
              /\ op'.result = Cardinality(stale)]_vars

\* C16 witness: a sweep with a positive max_age deleted an entry and left
\* another, expired but not yet old enough, in place
C16_Witness ==
    /\ op.name = "clear_stale_cache"
    /\ op.args # None
    /\ op.args[1] > 0
    /\ op.result >= 1
    /\ \E r \in cache : r.expires_at < now /\ r.expires_at >= now - op.args[1]

\* C17: get_cache_stats reports total = number of entries, valid = number
\* of entries with expires_at >= now, and stale = total - valid >= 0; an
\* entry is counted valid exactly when get_cached_market_data would not
\* treat it as expired at the same instant (a read of an expired entry is a
\* miss that deletes it; a read of an unexpired, readable entry is a hit).
\* Stated on the step in which the call returns, of the entries the store
\* holds then.  The two counts of the call are two statements, not one
\* transaction: an entry put between them is counted valid and not in the
\* total.
C17_StatsAgreeWithRead ==
    [][\A c \in Callers :
          (callers[c].pc = "counted" /\ callers'[c].pc = "idle") =>
              LET Valid == {r \in cache : r.expires_at >= now}
                  reported == op'.result
              IN  /\ op'.name = "get_cache_stats"
                  /\ reported.total_entries = Cardinality(cache)
                  /\ reported.valid_entries = Cardinality(Valid)
                  /\ reported.stale_entries
                         = reported.total_entries - reported.valid_entries
                  /\ reported.stale_entries >= 0
                  /\ \A r \in cache :
                        LET read == get_cached_market_data(cache, r.brand, r.model,
                                                           r.condition)
                        IN  /\ r \notin Valid =>
                                  (read.market_data = None /\ r \notin read.store)
                            /\ (r \in Valid /\ r.data_json # NotJson) =>
                                  (read.market_data # None /\ r \in read.store)]_vars

\* the call of caller c that has selected a row goes on with the rest of
\* its cache read in this step
ReadsOn(c, name) ==
    /\ callers[c].pc = "selected"
    /\ callers[c].name = name
    /\ callers'[c].pc # "selected"

\* C18: a cache entry that cannot be deserialized on read is treated as a
\* miss: get_cached_market_data returns absent, deletes the corrupt entry,
\* and raises no error, so get_pricing_recommendation goes on to fetch fresh
\* data.  Checked under SpecDamaged on the reads of an unexpired row whose
\* text is damaged, made directly and by the engine.
C18_CorruptIsMiss ==
    /\ [][CacheStep("get_cached_market_data") =>
            LET cache_key == KeyOf(op'.args)
                row == op'.row
            IN  (row # None /\ row[1].data_json = NotJson /\ now <= row[1].expires_at) =>
                    /\ op'.result = None
                    /\ RowsUnder(cache', cache_key) = {}
                    /\ RowsElsewhere(cache', cache_key) = RowsElsewhere(cache, cache_key)]_vars
    /\ [][\A c \in Callers :
            LET row == callers[c].row
            IN  (/\ ReadsOn(c, "get_pricing_recommendation")
                 /\ row[1].data_json = NotJson /\ now <= row[1].expires_at) =>
                    /\ callers'[c].pc = "fetching"
                    /\ last' = last
                    /\ RowsUnder(cache', row[1].cache_key) = {}]_vars
    /\ [][(last'.id # last.id /\ last'.row # None
              /\ last'.row[1].data_json = NotJson) =>
            /\ ~last'.hit
            /\ last'.calls = <<"research_sold_comps_ai", "analyze_active_competition">>
            /\ last'.pricing.market_data.data_age_hours = 0
            /\ last'.pricing.market_data.sold_count = 3
            /\ last'.pricing.buy_it_now_price # Zero
            /\ \E row \in cache' :
                  /\ RowsUnder(cache', "apple_ipad air_used_good") = {row}
                  /\ row.data_json # NotJson
                  /\ row.created_at = now]_vars

\* C18 witness: after the row of an earlier call was damaged, at an hour
\* when it had not expired, the engine selected it, missed the cache and
\* was served fresh data, which it cached
C18_Witness ==
    /\ op.name = "damage"
    /\ last.called
    /\ ~last.hit
    /\ last.at = now
    /\ now > 0
    /\ last.row # None
    /\ last.row[1].data_json = NotJson
    /\ last.row[1].created_at < now
    /\ now <= last.row[1].expires_at
    /\ last.pricing.market_data.sold_count = 3
    /\ \E row \in cache : row.created_at = now /\ row.data_json # NotJson

(***************************************************************************)
(* Properties of the minimum price classifier, checked under SpecFilter.   *)
(***************************************************************************)
\* the categories in the order the claim names them
FilterCategories ==
    <<[brands |-> laptop_brands, keywords |-> laptop_keywords, min_price |-> 200],
      [brands |-> console_brands, keywords |-> console_keywords, min_price |-> 100],
      [brands |-> {}, keywords |-> tablet_keywords, min_price |-> 80],
      [brands |-> {}, keywords |-> phone_keywords, min_price |-> 75],
      [brands |-> camera_brands, keywords |-> camera_keywords, min_price |-> 100]>>

\* C19: _get_minimum_price_filter is a first-match classifier over the
\* lowercased brand and model, evaluated in the order laptop/computer
\* ($200), game console ($100), tablet ($80), phone ($75), camera ($100),
\* default ($50): the result is the threshold of the first category whose
\* brand list or keyword list matches, and $50 when none matches.
C19_FirstMatch ==
    (price_filter.busy /\ price_filter.min_price # None) =>
        LET brand_lower == lower(price_filter.brand)
            model_lower == lower(price_filter.model)
            Matching == {i \in 1..Len(FilterCategories) :
                            \/ brand_lower \in FilterCategories[i].brands
                            \/ \E kw \in FilterCategories[i].keywords :
                                  Contains(model_lower, kw)}
            First == {i \in Matching : \A j \in Matching : i <= j}
        IN  /\ Matching = {} => price_filter.min_price = Some(Rat(50, 1))
            /\ \A i \in First :
                  price_filter.min_price = Some(Rat(FilterCategories[i].min_price, 1))

\* C19 witness: an Apple iPad matches the laptop category by its brand and
\* the tablet category by its model, and gets the laptop threshold
C19_Witness ==
    /\ price_filter.busy
    /\ price_filter.brand = "Apple"
    /\ price_filter.model = "iPad Air"
    /\ price_filter.min_price = Some(Rat(200, 1))

(***************************************************************************)
(* Properties of the UPC resolver, checked under SpecLookup.  A step of a  *)
(* lookup is a step that flips resolver.last.id.                           *)
(***************************************************************************)
\* the digits of the codes explored, written out
CodeOf(upc) ==
    IF upc = " - " THEN "" ELSE IF upc = "99" THEN "99" ELSE "012345"

\* C20: for a code that normalizes to a non-empty digit string and is not
\* in the session cache, UPCLookup.lookup consults the providers in the
\* fixed order UPCitemdb, Barcode Lookup, OpenFoodFacts and returns the
\* result of the first one that yields a result, calling no later provider;
\* a provider that raises, returns an error status, or has no credentials
\* counts as not found and the chain continues; if none yields a result,
\* lookup returns absent.  Stated on the step in which a lookup returns:
\* cached tells whether its test of the session cache found the digits.
C20_ProviderChain ==
    [][resolver'.last.id # resolver.last.id =>
          LET call == resolver'.last
              code == CodeOf(call.upc)
              responses == call.responses[1]
              Configured(p) ==
                  \/ p = "openfoodfacts"
                  \/ p = "upcitemdb" /\ resolver.upcitemdb_key
                  \/ p = "barcodelookup" /\ resolver.barcodelookup_key
              Yields(p) ==
                  /\ Configured(p)
                  /\ ~responses[p].raises
                  /\ responses[p].status_code = 200
                  /\ responses[p].items # <<>>
              Winners == {i \in 1..3 : /\ Yields(ProviderOrder[i])
                                       /\ \A j \in 1..(i - 1) : ~Yields(ProviderOrder[j])}
              Requested == {call.requests[k] : k \in 1..Len(call.requests)}
          IN  (code # "" /\ ~call.cached) =>
                  /\ \A a, b \in 1..Len(call.requests) :
                        a < b =>
                          \E i, j \in 1..3 : /\ i < j
                                              /\ call.requests[a] = ProviderOrder[i]
                                              /\ call.requests[b] = ProviderOrder[j]
                  /\ Winners = {} =>
                        /\ call.result = None
                        /\ Requested = {ProviderOrder[j] : j \in {k \in 1..3 :
                                                          Configured(ProviderOrder[k])}}
                  /\ \A i \in Winners :
                        /\ call.result # None
                        /\ call.result[1].source = ProviderOrder[i]
                        /\ call.result[1].upc = code
                        /\ Requested = {ProviderOrder[j] : j \in {k \in 1..i :
                                                          Configured(ProviderOrder[k])}}]_vars

\* C20 witness: the first provider raised, the second answered, and the
\* third, which had a product too, was not requested
C20_Witness ==
    /\ resolver.busy
    /\ resolver.last.upc = "0123-45"
    /\ resolver.last.responses # None
    /\ resolver.last.responses[1].upcitemdb.raises
    /\ resolver.last.responses[1].openfoodfacts.items # <<>>
    /\ resolver.last.requests = <<"upcitemdb", "barcodelookup">>
    /\ resolver.last.result # None
    /\ resolver.last.result[1].source = "barcodelookup"
    /\ resolver.last.result[1].upc = "012345"

\* C21: once UPCLookup.lookup has returned a result for a code, every later
\* lookup in the same process of any code with the same digits (dashes and
\* spaces ignored) returns that same result without calling any provider; a
\* code with no digits returns absent without calling any provider.
\* resolver.returned holds the results lookups have returned so far; a
\* lookup that begins now is later than all of them and ends at its test of
\* the session cache with what lookup_cached finds.  Of two lookups of the
\* same digits that have both passed that test, the second to store its
\* result replaces the result the first has returned.
C21_SessionCache ==
    /\ [](resolver.busy =>
            \A earlier \in resolver.returned, upc \in Codes :
                CodeOf(upc) = earlier.code =>
                    LET later == lookup_cached(resolver, upc)
                    IN  /\ later.returns
                        /\ later.result = earlier.result
                        /\ later.chain.requests = <<>>)
    /\ [][resolver'.last.id # resolver.last.id =>
            LET call == resolver'.last
            IN  CodeOf(call.upc) = "" =>
                    (call.result = None /\ call.requests = <<>>)]_vars

\* the rows of the store a read of (brand, model, condition) can hit
ReadableRows(store, brand, model, condition) ==
    {r \in store : /\ r.brand = brand /\ r.model = model /\ r.condition = condition
                   /\ now <= r.expires_at /\ r.data_json # NotJson}

\* the call just made was priced on its market record with this retail price
PricedWith(retail_price) ==
    last'.pricing =
        calculate_pricing_from_market_data(
            last'.pricing.market_data,
            upper(CONDITION_MAPPINGS[lower(last'.condition)]), retail_price)

\* the product name and what the fetch and the cache write did with it on
\* the call that returns in this step: the row of its cache read was one
\* under the name, a miss fetched a record of that name, and a fetched
\* record with data was cached under it
SearchedAs(brand, product_name) ==
    LET call == last'
        record == call.pricing.market_data
    IN  /\ record.brand = brand /\ record.model = product_name
        /\ call.row # None =>
              /\ call.row[1].brand = brand
              /\ call.row[1].model = product_name
        /\ call.hit => call.row # None
        /\ (~call.hit /\ record.sold_count > 0) =>
              \E row \in cache' :
                  /\ ReadableRows(cache', brand, product_name, record.condition) = {row}
                  /\ row.created_at = now
                  /\ _deserialize_market_data(row.data_json)[1].model = product_name

\* the cache read of the call caller c begins in this step is made under
\* the key of the brand, this product name and the condition
SelectedAs(c, product_name) ==
    LET call == callers'[c].args
        upc_data == call.upc_data
        brand == IF upc_data # None /\ upc_data[1].brand # ""
                 THEN upc_data[1].brand ELSE call.brand
    IN  callers'[c].row =
            select_entry(cache, _generate_cache_key(brand, product_name, "USED_GOOD"))

\* C22: when the UPC resolver returns a product name, that name replaces the
\* model for the cache lookup, the market-data fetch and the cached record;
\* the resolver's MSRP becomes the retail-price fallback only when the
\* caller supplied none, so a caller-supplied positive retail_price is never
\* overridden; when the resolver returns absent, brand, model and
\* retail_price are used unchanged.  The first part is on the step of the
\* SELECT of the cache read, the second on the step in which the call
\* returns.  A retail price of 0.0 supplied by the caller is replaced by the
\* MSRP as well.
C22_UpcOverrides ==
    /\ [][\A c \in Callers :
            (/\ callers[c].pc \in {"idle", "looked_up"}
             /\ callers'[c].pc \in {"selected", "fetching"}) =>
                LET upc_data == callers'[c].args.upc_data
                IN  /\ (upc_data # None /\ upc_data[1].title # "") =>
                           SelectedAs(c, upc_data[1].title)
                    /\ upc_data = None => SelectedAs(c, callers'[c].args.model)]_vars
    /\ [][last'.id # last.id =>
            LET call == last'
                upc_data == call.upc_data
            IN  /\ (upc_data # None /\ upc_data[1].title # "") =>
                       SearchedAs(call.pricing.market_data.brand, upc_data[1].title)
                /\ PricedWith(IF /\ upc_data # None /\ upc_data[1].msrp # None
                                 /\ call.retail_price = None
                              THEN upc_data[1].msrp ELSE call.retail_price)
                /\ upc_data = None => SearchedAs(call.brand, call.model)]_vars

\* the statistics of a side without listings are zero
ZeroWithoutCount(market_data) ==
    /\ market_data.sold_count = 0 =>
          /\ market_data.avg_sold_price = Zero
          /\ market_data.median_sold_price = Zero
    /\ market_data.active_listing_count = 0 =>
          /\ market_data.avg_active_price = Zero
          /\ market_data.median_active_price = Zero

\* C23: every MarketData record produced by fetch_market_data or returned by
\* the cache satisfies: sold_count = 0 implies avg_sold_price =
\* median_sold_price = 0.0, and active_listing_count = 0 implies
\* avg_active_price = median_active_price = 0.0.  Stated on the record each
\* engine call priced, fetched on a miss and read from the cache on a hit,
\* and on every record the cache holds.
C23_ZeroWithoutCount ==
    /\ last.called => ZeroWithoutCount(last.pricing.market_data)
    /\ \A row \in cache :
          row.data_json # NotJson => ZeroWithoutCount(_deserialize_market_data(row.data_json)[1])

\* C23 witness: the cache returned a record with active listings and no
\* sold listings: one count is positive while the other is 0
C23_Witness ==
    /\ last.called /\ last.hit
    /\ last.pricing.market_data.sold_count = 0
    /\ last.pricing.market_data.avg_sold_price = Zero
    /\ last.pricing.market_data.active_listing_count > 0
    /\ last.pricing.market_data.avg_active_price # Zero

\* C24: ConditionMapper.map_condition with no grade maps every key of
\* CONDITION_MAPPINGS (in particular 'like new', 'very good', 'good',
\* 'acceptable', 'salvage'), in any letter case and with surrounding
\* whitespace, to exactly its mapped eBay condition: the direct mapping takes
\* precedence over the fuzzy substring matching.
C24_DirectMapping ==
    (condition_mapper.busy /\ condition_mapper.grade = "") =>
        /\ \A key \in DOMAIN CONDITION_MAPPINGS :
              condition_mapper.condition \in Spellings(key) =>
                  condition_mapper.result = CONDITION_MAPPINGS[key]
        /\ condition_mapper.condition \in Spellings("like new") =>
              condition_mapper.result = "LIKE_NEW"
        /\ condition_mapper.condition \in Spellings("very good") =>
              condition_mapper.result = "USED_VERY_GOOD"
        /\ condition_mapper.condition \in Spellings("good") =>
              condition_mapper.result = "USED_GOOD"
        /\ condition_mapper.condition \in Spellings("acceptable") =>
              condition_mapper.result = "USED_ACCEPTABLE"
        /\ condition_mapper.condition \in Spellings("salvage") =>
              condition_mapper.result = "FOR_PARTS_OR_NOT_WORKING"

\* C24 witness: 'good' in capitals between blanks, which is also part of the
\* earlier key 'very good', is mapped to USED_GOOD
C24_Witness ==
    /\ condition_mapper.busy
    /\ condition_mapper.grade = ""
    /\ condition_mapper.condition = "  GOOD "
    /\ FuzzyMatch("very good", "good")
    /\ condition_mapper.result = "USED_GOOD"

\* C25: when get_pricing_recommendation finds a valid (unexpired,
\* deserializable) cache entry for the key, it calls neither the sold-comp
\* research nor the active-listing search, and it leaves the entry's data,
\* created_at and expires_at unchanged (a hit does not extend the TTL).
C25_HitLeavesEntry ==
    [][\A c \in Callers :
          LET row == callers[c].row
          IN  (/\ ReadsOn(c, "get_pricing_recommendation")
               /\ now <= row[1].expires_at /\ row[1].data_json # NotJson) =>
                  /\ callers'[c].pc = "idle"
                  /\ last'.id # last.id
                  /\ last'.hit
                  /\ last'.calls = <<>>
                  /\ cache' = cache
                  /\ last'.pricing.market_data.sold_listings
                        = _deserialize_market_data(row[1].data_json)[1].sold_listings
                  /\ last'.pricing.market_data.data_age_hours
                        = now - row[1].created_at]_vars

\* C25 witness: a call twelve hours after the entry was written was a hit,
\* asked no source, and the entry still expires 24 hours after its writing
C25_Witness ==
    /\ last.called /\ last.hit
    /\ last.calls = <<>>
    /\ last.pricing.market_data.data_age_hours = TickHours
    /\ \E row \in cache :
          /\ row.cache_key = "apple_ipad air_used_good"
          /\ row.created_at = last.at - TickHours
          /\ row.expires_at = row.created_at + cache_duration_hours

\* C26 as stated: whenever the market record carries any market evidence
\* (sold_count > 0 or active_listing_count > 0), the calculator does not
\* return the no-data terminal: buy_it_now_price > 0 and confidence > 0, for
\* every retail_price including none.  One or two sold listings are below
\* min_sold_samples and do not count.
C26_AnyEvidenceIsPriced ==
    calc.pricing # None =>
        ((calc.market_data.sold_count > 0 \/ calc.market_data.active_listing_count > 0) =>
            /\ CalcOut.buy_it_now_price.num > 0
            /\ CalcOut.confidence.num > 0)

\* C26: whenever the market record has at least min_sold_samples sold
\* listings or any active listing, the calculator does not return the
\* no-data terminal, for every retail_price including none: the tier is
\* sold or active, confidence > 0, and buy_it_now_price > 0 when the base
\* price of the tier is positive.  A record with fewer sold listings and no
\* active listing is priced by the retail price alone: without a positive
\* retail price the result is the no-data terminal.
C26_UsableEvidenceIsPriced ==
    calc.pricing # None =>
        LET md == calc.market_data
            why == CalcOut.reasoning
        IN  /\ (md.sold_count >= min_sold_samples \/ md.active_listing_count > 0) =>
                  /\ why.tier \in {"sold", "active"}
                  /\ CalcOut.confidence.num > 0
                  /\ why.base_price[1].num > 0 => CalcOut.buy_it_now_price.num > 0
            /\ (md.sold_count < min_sold_samples /\ md.active_listing_count = 0
                   /\ ~RetailPositive) =>
                  /\ why.tier = "none"
                  /\ CalcOut.buy_it_now_price = Zero
                  /\ CalcOut.confidence = Zero

\* C26 witness: a record with two sold listings, no active listing and no
\* retail price got the no-data terminal
C26_Witness ==
    /\ calc.pricing # None
    /\ calc.market_data.sold_count = 2
    /\ calc.market_data.avg_sold_price.num > 0
    /\ calc.market_data.active_listing_count = 0
    /\ calc.retail_price = None
    /\ CalcOut.reasoning.tier = "none"
    /\ CalcOut.buy_it_now_price = Zero
    /\ CalcOut.confidence = Zero

\* lowercased and whitespace-collapsed
Normalized(text) == JoinWords(lower(text))

\* C27: distinct products never share a cache entry: a hit of
\* get_cached_market_data(brand, model, condition) returns only a record
\* whose brand, model and condition, each lowercased and
\* whitespace-collapsed, equal those of the request.  The key joins the
\* three components with "_", so components that contain "_" collide.
C27_HitIsOfRequest ==
    [][(CacheStep("get_cached_market_data") /\ op'.result # None) =>
          /\ Normalized(op'.result[1].brand) = Normalized(op'.args[1])
          /\ Normalized(op'.result[1].model) = Normalized(op'.args[2])
          /\ Normalized(op'.result[1].condition) = Normalized(op'.args[3])]_vars

\* C28: with two callers sharing the cache store and their steps
\* interleaved, a get_cached_market_data that read an expired entry never
\* deletes a fresh entry that another caller wrote under the same key
\* between that read and the delete: an entry put and not yet expired is
\* still present after the read has finished.  The DELETE names the key, not
\* the row that was read.
C28_FreshEntrySurvivesRead ==
    [][\A c \in Callers :
          ReadsOn(c, "get_cached_market_data") =>
              \A r \in cache :
                  (now <= r.expires_at /\ r.data_json # NotJson) => r \in cache']_vars

\* C29: after clear_stale_cache() with its default max age, no stale entry
\* remains: get_cache_stats at the same instant reports stale_entries = 0,
\* that is, every entry with expires_at < now has been removed.  Stated in
\* the hour of the last sweep.  The sweep compares expires_at with
\* now - 24 h, so an entry that expired less than 24 hours ago stays.
C29_SweepLeavesNoStale ==
    (sweep.busy /\ sweep.max_age_hours = None /\ sweep.at = now) =>
        /\ get_cache_stats(Cardinality(cache), cache).stale_entries = 0
        /\ \A r \in cache : ~(r.expires_at < now)

\* C30: the tablet and phone thresholds apply whatever the brand: for brand
\* 'Apple', _get_minimum_price_filter returns $80 for a model containing the
\* tablet keyword 'ipad' and $75 for a model containing the phone keyword
\* 'iphone'.  The brand 'apple' is in the laptop brands, which are tested
\* first.
C30_AppleTabletAndPhone ==
    (price_filter.busy /\ price_filter.min_price # None /\ price_filter.brand = "Apple") =>
        /\ Contains(lower(price_filter.model), "ipad") =>
              price_filter.min_price = Some(Rat(80, 1))
        /\ Contains(lower(price_filter.model), "iphone") =>
              price_filter.min_price = Some(Rat(75, 1))

====
